---- MODULE Spec2Model ----
(***************************************************************************)
(* A model of the forecast cache of weather-app-challenge: the chunked,    *)
(* indexed, TTL-bound cache store (src/src/services/redis_client.rs) and   *)
(* the scheduler that drives fetch cycles through it                       *)
(* (src/src/services/scheduler.rs).                                        *)
(*                                                                         *)
(* Units.  Time is counted in ticks of 30 minutes, so the 1 hour TTL is 2  *)
(* ticks and the 2 hour duplicate tolerance is 4 ticks.  Serialized sizes  *)
(* are counted in scaled bytes, the 8 MB ceiling being 8 of them.          *)
(*                                                                         *)
(* An Option<T> of the source is a sequence of length at most one:         *)
(* None is << >> and Some(x) is <<x>>.                                     *)
(***************************************************************************)
EXTENDS Integers, Sequences, FiniteSets, TLC

\* ---------------------------------------------------------------- constants

\* const REDIS_TTL = 60 * 60 seconds, in ticks of 30 minutes.
REDIS_TTL == 2
\* const MAX_SIZE = 8 * 1024 * 1024 bytes, in scaled bytes.
MAX_SIZE == 8
\* let tolerance_ms = 2 * 60 * 60 * 1000, in ticks of 30 minutes.
TOLERANCE == 4

\* ------------------------------------------------------------------- bounds

\* Longest list of points a value carries.
MaxLen == 3

\* ------------------------------------------------------------------ helpers

None == << >>
Some(x) == <<x>>

RECURSIVE SumSeq(_)
SumSeq(s) == IF s = << >> THEN 0 ELSE Head(s) + SumSeq(Tail(s))

CeilDiv(a, b) == (a + b - 1) \div b

Min(a, b) == IF a < b THEN a ELSE b

Abs(x) == IF x < 0 THEN 0 - x ELSE x

\* --------------------------------------------------------------- JSON values

\* The fields of a snapshot other than its points: dataTime, runName,
\* forecastOffset (each possibly absent) and the serialized size sz of the
\* object without its points field.
Meta(dt, rn, fo, sz) == [dt |-> dt, rn |-> rn, fo |-> fo, sz |-> sz]
NoMeta == Meta(None, None, None, 0)

\* serde_json::Value, as far as the cache inspects it.  A point is a positive
\* integer: its identity and the length of its serialization.
\*   array : a bare list of points
\*   object: a map; hp says whether it has a list-valued "points" field
\*   scalar: a string, number, bool or null of meta.sz bytes
JArray(pts) == [kind |-> "array", meta |-> NoMeta, hp |-> FALSE, pts |-> pts,
                num |-> 0, ents |-> << >>]
JObject(meta, hp, pts) == [kind |-> "object", meta |-> meta, hp |-> hp,
                           pts |-> pts, num |-> 0, ents |-> << >>]
JScalar(sz) == [kind |-> "scalar", meta |-> Meta(None, None, None, sz),
                hp |-> FALSE, pts |-> << >>, num |-> 0, ents |-> << >>]
\* usize::to_string / u32::to_string and str::parse back.
JNumber(n) == [kind |-> "number", meta |-> NoMeta, hp |-> FALSE, pts |-> << >>,
               num |-> n, ents |-> << >>]
\* serde_json::to_string(&Vec<IndexEntry>) and from_str back.
JIndices(ents) == [kind |-> "indices", meta |-> NoMeta, hp |-> FALSE,
                   pts |-> << >>, num |-> 0, ents |-> ents]

\* Length of serde_json::to_string of a list of points: the brackets, the
\* points and the commas between them.
ListSize(pts) ==
    2 + SumSeq(pts) + (IF Len(pts) > 0 THEN Len(pts) - 1 ELSE 0)

\* Length of serde_json::to_string(data): for an object, the part without
\* points (meta.sz) plus, when present, the points field with its separator.
JsonSize(v) ==
    CASE v.kind = "array" -> ListSize(v.pts)
      [] v.kind = "object" ->
            v.meta.sz + (IF v.hp THEN 1 + ListSize(v.pts) ELSE 0)
      [] v.kind = "scalar" -> v.meta.sz
      [] v.kind = "number" -> 1
      [] OTHER -> 2 + Len(v.ents)

\* ------------------------------------------------------------------ the keys

\* A physical key.  b is the base key; i is Some(index) for "{b}:{index}";
\* p is the suffix ("", "chunks", "chunk", "meta", "indices",
\* "current_index"); c is the chunk number of a "chunk" key, else 0.
Key(b, i, p, c) == [b |-> b, i |-> i, p |-> p, c |-> c]
PlainKey(b) == Key(b, None, "", 0)
\* format!("{}:{}", base_key, index)
IndexedKey(k, index) == [k EXCEPT !.i = Some(index)]
\* format!("{}:chunks", key), format!("{}:chunk:{}", key, i), "{}:meta"
ChunksKey(k) == [k EXCEPT !.p = "chunks"]
ChunkKey(k, n) == [k EXCEPT !.p = "chunk", !.c = n]
MetaKey(k) == [k EXCEPT !.p = "meta"]
\* format!("{}:indices", base_key), format!("{}:current_index", base_key)
IndicesKey(k) == [k EXCEPT !.p = "indices"]
CurrentIndexKey(k) == [k EXCEPT !.p = "current_index"]

\* ------------------------------------------------- the key-value primitive

\* A store is a function from the keys present to [v: value, exp: the tick
\* at which the key expires].
EmptyStore == [k \in {} |-> 0]

Has(s, k) == k \in DOMAIN s

\* conn.set_ex(key, value, REDIS_TTL) at time t.
SetEx(s, k, v, t) ==
    [x \in DOMAIN s \cup {k} |->
        IF x = k THEN [v |-> v, exp |-> t + REDIS_TTL] ELSE s[x]]

\* conn.del(key)
Del(s, k) == [x \in DOMAIN s \ {k} |-> s[x]]

\* The keys the store has dropped by time t.
Expire(s, t) == [x \in {k \in DOMAIN s : s[k].exp > t} |-> s[x]]

\* ------------------------------------------------------- chunked write path

\* (len / (data_size / MAX_SIZE).ceil()).ceil() as usize
ChunkSize(len, dataSize) == CeilDiv(len, CeilDiv(dataSize, MAX_SIZE))

\* A split that keeps only the full slices and loses a shorter last one.
ChunksFullOnly(pts, cs) ==
    [i \in 1..(Len(pts) \div cs) |-> SubSeq(pts, (i - 1) * cs + 1, i * cs)]

\* slice::chunks(chunk_size), for chunk_size > 0: consecutive slices of
\* chunk_size elements, the last one possibly shorter.
Chunks(pts, cs) ==
    [i \in 1..CeilDiv(Len(pts), cs) |->
        SubSeq(pts, (i - 1) * cs + 1, Min(i * cs, Len(pts)))]

\* for (i, chunk) in chunks.iter().enumerate() { set_ex("{key}:chunk:{i}") }
RECURSIVE StoreChunks(_, _, _, _, _)
StoreChunks(s, chunks, i, key, t) ==
    IF i > Len(chunks) THEN s
    ELSE StoreChunks(SetEx(s, ChunkKey(key, i - 1), JArray(chunks[i]), t),
                     chunks, i + 1, key, t)

\* RedisClient::store_chunked_array.  slice::chunks panics on a chunk size of
\* zero, before anything is written.
StoreChunkedArray(s, arr, key, t) ==
    LET cs == ChunkSize(Len(arr), ListSize(arr)) IN
    IF cs = 0 THEN [s |-> s, r |-> "panic"]
    ELSE LET chunks == Chunks(arr, cs)
             s1 == SetEx(s, ChunksKey(key), JNumber(Len(chunks)), t)
         IN  [s |-> StoreChunks(s1, chunks, 1, key, t), r |-> "ok"]

\* RedisClient::store_chunked_object
StoreChunkedObject(s, obj, key, t) ==
    LET cs == ChunkSize(Len(obj.pts), JsonSize(obj)) IN
    IF cs = 0 THEN [s |-> s, r |-> "panic"]
    ELSE LET chunks == Chunks(obj.pts, cs)
             meta == JObject(obj.meta, FALSE, << >>)
             s1 == SetEx(s, MetaKey(key), meta, t)
             s2 == SetEx(s1, ChunksKey(key), JNumber(Len(chunks)), t)
         IN  [s |-> StoreChunks(s2, chunks, 1, key, t), r |-> "ok"]

\* A set_wind_data that stores whatever it is given under the plain key.
SetWindDataUnchecked(s, data, key, t) ==
    [s |-> SetEx(s, key, data, t), r |-> "ok"]

\* RedisClient::set_wind_data
SetWindData(s, data, key, t) ==
    IF JsonSize(data) > MAX_SIZE
    THEN IF data.kind = "array"
         THEN StoreChunkedArray(s, data.pts, key, t)
         ELSE IF data.kind = "object" /\ data.hp
         THEN StoreChunkedObject(s, data, key, t)
         ELSE [s |-> s, r |-> "too_large"]
    ELSE [s |-> SetEx(s, key, data, t), r |-> "ok"]

\* -------------------------------------------------------- read path

\* for i in 0..num_chunks: a chunk key that is absent contributes nothing.
RECURSIVE ReadChunks(_, _, _, _)
ReadChunks(s, key, i, n) ==
    IF i >= n THEN << >>
    ELSE (IF Has(s, ChunkKey(key, i)) THEN s[ChunkKey(key, i)].v.pts
          ELSE << >>) \o ReadChunks(s, key, i + 1, n)

\* RedisClient::get_wind_data
GetWindData(s, key) ==
    IF Has(s, ChunksKey(key))
    THEN LET points == ReadChunks(s, key, 0, s[ChunksKey(key)].v.num) IN
         IF Has(s, MetaKey(key))
         THEN Some(JObject(s[MetaKey(key)].v.meta, TRUE, points))
         ELSE Some(JArray(points))
    ELSE IF Has(s, key) THEN Some(s[key].v) ELSE None

\* ------------------------------------------------------ indexed versioning

\* struct IndexEntry.  Its timestamp (the wall clock of the write) is written
\* and never read by the cache or the scheduler, and is left out.
IndexEntry(index, dataPoints, runName, dataTime, forecastOffset) ==
    [index |-> index, n |-> dataPoints, rn |-> runName, dt |-> dataTime,
     fo |-> forecastOffset]

\* RedisClient::count_data_points
CountDataPoints(data) ==
    IF data.kind = "array" THEN Len(data.pts)
    ELSE IF data.kind = "object" /\ data.hp THEN Len(data.pts)
    ELSE 0

\* conn.get("{base_key}:current_index"), parsed, or 0
CurrentIndex(s, base) ==
    IF Has(s, CurrentIndexKey(base)) THEN s[CurrentIndexKey(base)].v.num
    ELSE 0

\* conn.get("{base_key}:indices"), parsed, or the empty list
Indices(s, base) ==
    IF Has(s, IndicesKey(base)) THEN s[IndicesKey(base)].v.ents ELSE << >>

\* diff < tolerance_ms, for two data times that are both present
WithinTolerance(dta, dtb) ==
    /\ dta # None
    /\ dtb # None
    /\ Abs(dta[1] - dtb[1]) < TOLERANCE

\* A duplicate test that takes only an equal data time for a duplicate.
ExistingEntryExact(indices, dataTime) ==
    LET hits == {i \in 1..Len(indices) : dataTime # None
                                          /\ indices[i].dt = dataTime} IN
    IF hits = {} THEN None
    ELSE Some(CHOOSE i \in hits : \A j \in hits : i <= j)

\* indices.iter().position(|idx| diff < tolerance_ms): the first entry in
\* list order within the tolerance, when the data carries a data time.
ExistingEntry(indices, dataTime) ==
    LET hits == {i \in 1..Len(indices) :
                    WithinTolerance(dataTime, indices[i].dt)} IN
    IF hits = {} THEN None
    ELSE Some(CHOOSE i \in hits : \A j \in hits : i <= j)

\* An index choice that numbers a new entry by its position in the list.
EntryIndexByPosition(indices, existing, cur) ==
    IF existing # None THEN indices[existing[1]].index ELSE Len(indices)

\* current_index as the entry is built: the index of the entry being updated,
\* else the current index read from the cache.
EntryIndex(indices, existing, cur) ==
    IF existing # None THEN indices[existing[1]].index ELSE cur

\* for i in 0..num_chunks { conn.del("{key}:chunk:{i}") }
RECURSIVE DelChunks(_, _, _, _)
DelChunks(s, key, i, n) ==
    IF i >= n THEN s ELSE DelChunks(Del(s, ChunkKey(key, i)), key, i + 1, n)

\* A delete that takes the keys of the same index under every base key.
DeleteDataOfIndex(s, key) ==
    [x \in {k \in DOMAIN s : k.i # key.i} |-> s[x]]

\* RedisClient::delete_data
DeleteData(s, key) ==
    IF Has(s, ChunksKey(key))
    THEN Del(Del(DelChunks(s, key, 0, s[ChunksKey(key)].v.num),
                 ChunksKey(key)), MetaKey(key))
    ELSE Del(s, key)

\* for old_index in old_indices { delete_data("{base_key}:{old_index.index}") }
RECURSIVE DeleteOld(_, _, _)
DeleteOld(s, base, old) ==
    IF old = << >> THEN s
    ELSE DeleteOld(DeleteData(s, IndexedKey(base, Head(old).index)),
                   base, Tail(old))

\* indices.drain(..indices.len() - max_history): how many entries leave the
\* front of the list.
Drain(indices, maxHistory) ==
    IF Len(indices) > maxHistory THEN Len(indices) - maxHistory ELSE 0

\* RedisClient::set_wind_data_with_index, run to its end with no other call in
\* between.  r is "ok" or the failure of the first set_wind_data, which ends
\* the call before any key is written; idx is the index returned.
SetWindDataWithIndex(s, data, base, maxHistory, t) ==
    LET cur == CurrentIndex(s, base)
        indices == Indices(s, base)
        existing == ExistingEntry(indices, data.meta.dt)
        currentIndex == EntryIndex(indices, existing, cur)
        entry == IndexEntry(currentIndex, CountDataPoints(data),
                            data.meta.rn, data.meta.dt, data.meta.fo)
        pushed == IF existing # None
                  THEN [indices EXCEPT ![existing[1]] = entry]
                  ELSE Append(indices, entry)
        w1 == SetWindData(s, data, IndexedKey(base, currentIndex), t)
        drop == Drain(pushed, maxHistory)
        s2 == DeleteOld(w1.s, base, SubSeq(pushed, 1, drop))
        kept == SubSeq(pushed, drop + 1, Len(pushed))
        s3 == SetEx(s2, IndicesKey(base), JIndices(kept), t)
        s4 == IF existing = None
              THEN SetEx(s3, CurrentIndexKey(base), JNumber(currentIndex + 1), t)
              ELSE s3
        w5 == SetWindData(s4, data, base, t)
    IN  IF w1.r # "ok" THEN [s |-> s, r |-> w1.r, idx |-> None]
        ELSE [s |-> w5.s, r |-> w5.r, idx |-> Some(currentIndex)]

\* RedisClient::get_wind_data_by_index
GetWindDataByIndex(s, base, index) == GetWindData(s, IndexedKey(base, index))

\* -------------------------------------------------------------------- state

VARIABLES
    kv,     \* the cache: the keys present, with value and expiry
    now,    \* the wall clock, in ticks
    last,   \* the write call that has just ended: its name, argument and
            \* outcome; cleared when time passes
    got,    \* the last read since the last write, if any
    ix,     \* per caller, a set_wind_data_with_index call in progress
    proc,   \* per activity of the scheduler, where it is and its locals
    status  \* SchedulerStatus

cacheVars == <<kv, now, last, got>>
vars == <<kv, now, last, got, ix, proc, status>>

\* last.fresh: the store was empty before the call; last.idx: the index a
\* setIndexed returned; last.pre and last.preCur: the index list and the
\* current index as they were read before the call.
NoOp == [op |-> "none", arg |-> None, res |-> "", fresh |-> FALSE,
         idx |-> None, pre |-> << >>, preCur |-> 0]
NotRead == [done |-> FALSE, out |-> None]

\* The callers of set_wind_data_with_index that may run at the same time, and
\* a caller with no call in progress.  The locals of a call: data, the
\* current index and the list as read (cur, indices), the position of the
\* entry to update (existing), the index used (index), the list to write
\* back (kept) and the entries to delete (old), the index returned (ret).
Callers == {"a", "b"}
IxIdle == [pc |-> "idle", data |-> None, cur |-> 0, indices |-> << >>,
           existing |-> None, index |-> 0, kept |-> << >>, old |-> << >>,
           ret |-> None]
NoCalls == [c \in Callers |-> IxIdle]

\* The activities that run fetches at the same time once the server is up:
\* the recurring 5-minute job and a manual trigger handler.  The locals of
\* an activity: which fetch it runs (mode), the position in the target list
\* (ti), success_count and failure_count (ok, failed), the arguments of the
\* current cycle (offset, runAge, in hours), its data_time and run_name, the
\* index list read by the dedup check (existing) and the index the wind
\* write returned (index).  Kept beside the locals: the wind writes the
\* current cycle has completed (wrote), the hoursBack of the targets the
\* current fetch has sent a wind or a precipitation download for (windFor,
\* precipFor), the kinds of failure met during the fetch (faults), and what
\* the last fetch returned to its caller (ret): "ok_true" and "ok_false" for
\* Ok(true) and Ok(false), "err" for Err.
Activities == {"background", "manual"}

\* The locals of a download_*_data_opendap call of an activity: what it
\* downloads (kind), run_age, available_runs (runs), the position of the loop over
\* them (i), last_error, and the value returned (result, the run the data
\* came from).  Kept beside them: the runs requested so far with the outcome
\* of each (tried).
DlIdle == [pc |-> "idle", kind |-> "none", runAge |-> 0, runs |-> << >>,
           i |-> 0,
           tried |-> << >>, lastError |-> << >>, result |-> << >>]



\* The locals of a parse_opendap_ascii or parse_opendap_precipitation_ascii
\* call of an activity: which of the two it is (kind), current_variable,
\* in_data_section, the variables whose parsed_* flag is set (parsed), the
\* axes and planes collected so far, and what it returned (result: "ok" or
\* "err").  A value is kept as the section of the input it was read in.
\* Kept beside the locals: the number of lines read (n), the section of the
\* input the parser is reading (section), the headers the input had so far
\* (seen) and the sections of the input that had values after a header seen
\* before or after the time header (offered), and the last index-prefixed
\* row that was read character by character (row: the number of the line,
\* the bracket groups of its index tuple and the numbers written after it).
ParserIdle == [pc |-> "idle", kind |-> "none", current_variable |-> << >>,
               in_data_section |-> FALSE, parsed |-> {},
               lat_values |-> << >>, lon_values |-> << >>,
               u_values |-> << >>, v_values |-> << >>,
               prate_values |-> << >>, result |-> "none",
               n |-> 0, section |-> "start", seen |-> {},
               offered |-> {},
               row |-> [n |-> 0, groups |-> 0, vals |-> << >>]]

\* The locals of a download_wind_data_for_run or
\* download_precipitation_data_for_run call of an activity: which of the
\* two it is (kind), the two parsed halves (west_data, east_data), the
\* combined axes and planes (all_*), the pixels of the image in row-major
\* order (png), the points built, and how the call ended (result: "ok" or
\* "panic").
GridIdle == [pc |-> "idle", kind |-> "none", west_data |-> << >>,
             east_data |-> << >>, all_lat_values |-> << >>,
             all_lon_values |-> << >>, all_u_values |-> << >>,
             all_v_values |-> << >>, all_prate_values |-> << >>,
             png |-> << >>, points |-> << >>, result |-> "none"]

\* The locals of a set_wind_data or get_wind_data call of an activity that
\* is followed key by key: the value being written (data) and its chunks,
\* the position of the loop over the chunks (i), and for a read num_chunks,
\* meta_data, the points collected and the value returned (out).  Kept
\* beside them: the value the key held when the write began (old).
IoIdle == [pc |-> "idle", op |-> "none", data |-> << >>, chunks |-> << >>,
           i |-> 0, num_chunks |-> 0, meta_data |-> << >>, points |-> << >>,
           out |-> << >>, old |-> << >>]

ProcIdle == [pc |-> "idle", mode |-> "none", ti |-> 0, ok |-> 0, failed |-> 0,
             offset |-> 0, runAge |-> 0, dataTime |-> 0, runName |-> 0,
             existing |-> << >>, index |-> 0,
             wrote |-> << >>, windFor |-> << >>, precipFor |-> << >>,
             faults |-> {}, ret |-> "none", dl |-> DlIdle,
             parser |-> ParserIdle, grid |-> GridIdle, io |-> IoIdle]
AllIdle == [a \in Activities |-> ProcIdle]

\* impl Default for SchedulerStatus
SchedulerStatusDefault == [running |-> FALSE, lastFetch |-> None]

\* The cache alone: no caller in a call, no scheduler activity.
CacheOnly ==
    /\ ix = NoCalls
    /\ proc = AllIdle
    /\ status = SchedulerStatusDefault

\* ----------------------------------------- setValue / getValue on one key

\* The payloads: every list of at most MaxLen points, bare or as the points
\* of an object with a small or an over-ceiling remainder, and values that
\* are neither.
Points == {1, 3}
RECURSIVE Lists(_)
Lists(n) == IF n = 0 THEN {<< >>}
            ELSE Lists(n - 1) \cup
                 {Append(l, p) : l \in {x \in Lists(n - 1) : Len(x) = n - 1},
                                 p \in Points}
MetaSizes == {1, MAX_SIZE + 1}
Payloads ==
    {JArray(l) : l \in Lists(MaxLen)}
    \cup {JObject(Meta(None, None, None, sz), TRUE, l) :
            sz \in MetaSizes, l \in Lists(MaxLen)}
    \cup {JObject(Meta(None, None, None, sz), FALSE, << >>) : sz \in MetaSizes}
    \cup {JScalar(sz) : sz \in MetaSizes}

ValueKey == PlainKey("value")

InitValue ==
    /\ kv = EmptyStore
    /\ now = 0
    /\ last = NoOp
    /\ got = NotRead
    /\ CacheOnly

\* A call set_wind_data(data, key).
SetValue(data) ==
    LET out == SetWindData(kv, data, ValueKey, now) IN
    /\ kv' = out.s
    /\ last' = [op |-> "set", arg |-> Some(data), res |-> out.r,
                fresh |-> (kv = EmptyStore), idx |-> None,
                pre |-> << >>, preCur |-> 0]
    /\ got' = NotRead
    /\ UNCHANGED <<now, ix, proc, status>>

\* A call get_wind_data(key).
GetValue ==
    /\ got' = [done |-> TRUE, out |-> GetWindData(kv, ValueKey)]
    /\ UNCHANGED <<kv, now, last, ix, proc, status>>

NextValue ==
    \/ \E data \in Payloads : SetValue(data)
    \/ GetValue

SpecValue == InitValue /\ [][NextValue]_vars

\* ------------------------- setValue and getValue on one key, key by key

\* The values that set_wind_data stores as a chunked object: objects with a
\* data time whose serialization is over the ceiling.
ChunkedValues ==
    {v \in {JObject(Meta(Some(d), None, None, 1), TRUE, l) :
               d \in {0, TOLERANCE}, l \in Lists(MaxLen)} :
        JsonSize(v) > MAX_SIZE /\ ChunkSize(Len(v.pts), JsonSize(v)) > 0}

\* set_wind_data(data, key) is called with a value of ChunkedValues:
\* store_chunked_object computes the chunks.
WriteBegin(a, data) ==
    /\ proc[a].io.pc = "idle"
    /\ proc' = [proc EXCEPT ![a].io =
          [IoIdle EXCEPT !.pc = "meta", !.op = "set", !.data = Some(data),
                         !.chunks = Chunks(data.pts,
                                           ChunkSize(Len(data.pts),
                                                     JsonSize(data))),
                         !.old = GetWindData(kv, ValueKey)]]
    /\ UNCHANGED <<cacheVars, ix, status>>

\* The next set_ex of store_chunked_object: key:meta, then key:chunks, then
\* the chunk keys one by one.
WriteStep(a) ==
    LET w == proc[a].io IN
    /\ w.op = "set"
    /\ w.pc \in {"meta", "count", "chunk"}
    /\ kv' = CASE w.pc = "meta" ->
                    SetEx(kv, MetaKey(ValueKey),
                          JObject(w.data[1].meta, FALSE, << >>), now)
               [] w.pc = "count" ->
                    SetEx(kv, ChunksKey(ValueKey), JNumber(Len(w.chunks)),
                          now)
               [] w.pc = "chunk" ->
                    SetEx(kv, ChunkKey(ValueKey, w.i), JArray(w.chunks[w.i + 1]),
                          now)
    /\ proc' = [proc EXCEPT ![a].io =
          CASE w.pc = "meta" -> [w EXCEPT !.pc = "count"]
            [] w.pc = "count" ->
                  [w EXCEPT !.pc = IF Len(w.chunks) = 0 THEN "done"
                                   ELSE "chunk",
                            !.i = 0]
            [] w.pc = "chunk" ->
                  [w EXCEPT !.pc = IF w.i + 1 >= Len(w.chunks) THEN "done"
                                   ELSE "chunk",
                            !.i = w.i + 1]]
    /\ UNCHANGED <<now, last, got, ix, status>>

\* get_wind_data(key) is called: conn.get("{key}:chunks").
ReadBegin(a) ==
    /\ proc[a].io.pc = "idle"
    /\ proc' = [proc EXCEPT ![a].io =
          IF Has(kv, ChunksKey(ValueKey))
          THEN [IoIdle EXCEPT !.pc = "meta", !.op = "get",
                              !.num_chunks = kv[ChunksKey(ValueKey)].v.num]
          ELSE [IoIdle EXCEPT !.pc = "plain", !.op = "get"]]
    /\ UNCHANGED <<cacheVars, ix, status>>

\* The value get_wind_data returns once the chunks are read.
Merged(r) ==
    IF r.meta_data # None
    THEN Some(JObject(r.meta_data[1].meta, TRUE, r.points))
    ELSE Some(JArray(r.points))

\* The next conn.get of get_wind_data: key:meta, then the chunk keys one by
\* one, an absent one giving nothing, and the value is returned; or the
\* plain key when there was no key:chunks.
ReadStep(a) ==
    LET r == proc[a].io
        got_meta == [r EXCEPT !.meta_data =
                        IF Has(kv, MetaKey(ValueKey))
                        THEN Some(kv[MetaKey(ValueKey)].v) ELSE None]
        got_chunk == [r EXCEPT !.points =
                         @ \o (IF Has(kv, ChunkKey(ValueKey, r.i))
                               THEN kv[ChunkKey(ValueKey, r.i)].v.pts
                               ELSE << >>),
                               !.i = r.i + 1]
    IN
    /\ r.op = "get"
    /\ r.pc \in {"meta", "chunk", "plain"}
    /\ proc' = [proc EXCEPT ![a].io =
          CASE r.pc = "meta" ->
                  IF r.num_chunks = 0
                  THEN [got_meta EXCEPT !.pc = "done", !.out = Merged(got_meta)]
                  ELSE [got_meta EXCEPT !.pc = "chunk", !.i = 0]
            [] r.pc = "chunk" ->
                  IF r.i + 1 >= r.num_chunks
                  THEN [got_chunk EXCEPT !.pc = "done",
                                         !.out = Merged(got_chunk)]
                  ELSE got_chunk
            [] r.pc = "plain" ->
                  [r EXCEPT !.pc = "done",
                            !.out = IF Has(kv, ValueKey)
                                    THEN Some(kv[ValueKey].v) ELSE None]]
    /\ UNCHANGED <<cacheVars, ix, status>>

\* A key that holds a chunked value.
InitTorn ==
    /\ kv \in {SetWindData(EmptyStore, v, ValueKey, 0).s : v \in ChunkedValues}
    /\ now = 0
    /\ last = NoOp
    /\ got = NotRead
    /\ ix = NoCalls
    /\ proc = AllIdle
    /\ status = [running |-> TRUE, lastFetch |-> None]

\* One activity replaces the value while the other reads it.
NextTorn ==
    \/ \E data \in ChunkedValues : WriteBegin("background", data)
    \/ WriteStep("background")
    \/ ReadBegin("manual")
    \/ ReadStep("manual")

SpecTorn == InitTorn /\ [][NextTorn]_vars

\* --------------------------------- setIndexed on one base key, with expiry

\* max_history, the history depth the callers pass (20), scaled.
MaxHistory == 2
\* The wall clock stops at MaxNow ticks.
MaxNow == 3
\* No new entry is created once current_index has reached MaxIndex.
MaxIndex == 3

BaseKey == PlainKey("wind:points")

\* The data times a snapshot may carry: multiples of the tolerance, and one
\* time halfway between the first two.
DataTimes == {k * TOLERANCE : k \in 0..MaxHistory} \cup {TOLERANCE \div 2}

\* The snapshots: with or without a data time, small enough to be stored
\* under one key (SmallSnapshots) or large enough to be chunked.
SnapshotsOf(points) ==
    {JObject(Meta(dt, None, None, 1), TRUE, pts) :
        dt \in {Some(d) : d \in DataTimes} \cup {None}, pts \in points}
SmallSnapshots == SnapshotsOf({<<1>>})
Snapshots == SnapshotsOf({<<1>>, <<3, 3>>})

Init ==
    /\ kv = EmptyStore
    /\ now = 0
    /\ last = NoOp
    /\ got = NotRead
    /\ CacheOnly

\* A call set_wind_data_with_index(data, base_key, max_history).
SetIndexed(data) ==
    LET out == SetWindDataWithIndex(kv, data, BaseKey, MaxHistory, now) IN
    /\ CurrentIndex(kv, BaseKey) < MaxIndex
    /\ kv' = out.s
    /\ last' = [op |-> "setIndexed", arg |-> Some(data), res |-> out.r,
                fresh |-> (kv = EmptyStore), idx |-> out.idx,
                pre |-> Indices(kv, BaseKey),
                preCur |-> CurrentIndex(kv, BaseKey)]
    /\ got' = NotRead
    /\ UNCHANGED <<now, ix, proc, status>>

\* Half an hour passes; the keys whose TTL has run out are gone.
Tick ==
    /\ now < MaxNow
    /\ now' = now + 1
    /\ kv' = Expire(kv, now + 1)
    /\ last' = NoOp
    /\ got' = NotRead
    /\ UNCHANGED <<ix, proc, status>>

\* Calls in sequence within one TTL window, with snapshots of both sizes.
Next == \E data \in Snapshots : SetIndexed(data)

Spec == Init /\ [][Next]_vars

\* Calls in sequence while time passes and keys expire.
NextTtl ==
    \/ \E data \in SmallSnapshots : SetIndexed(data)
    \/ Tick

SpecTtl == Init /\ [][NextTtl]_vars

\* ------------------------ two setIndexed calls on one base key, interleaved

\* The steps of RedisClient::set_wind_data_with_index between two awaits, for
\* caller c.  Every conn.get / conn.set_ex is a step of its own; the snapshots
\* are small, so each set_wind_data is a single set_ex.

\* The call starts.
IxBegin(c, data) ==
    /\ ix[c].pc = "idle"
    /\ ix' = [ix EXCEPT ![c] = [IxIdle EXCEPT !.pc = "read_current",
                                              !.data = Some(data)]]
    /\ UNCHANGED <<cacheVars, proc, status>>

\* conn.get("{base_key}:current_index")
IxReadCurrent(c) ==
    /\ ix[c].pc = "read_current"
    /\ ix' = [ix EXCEPT ![c].pc = "read_indices",
                        ![c].cur = CurrentIndex(kv, BaseKey)]
    /\ UNCHANGED <<cacheVars, proc, status>>

\* conn.get("{base_key}:indices"), the duplicate test, and the entry updated
\* in or pushed onto the local copy of the list.
IxReadIndices(c) ==
    LET indices == Indices(kv, BaseKey)
        data == ix[c].data[1]
        existing == ExistingEntry(indices, data.meta.dt)
        index == EntryIndex(indices, existing, ix[c].cur)
        entry == IndexEntry(index, CountDataPoints(data), data.meta.rn,
                            data.meta.dt, data.meta.fo)
    IN
    /\ ix[c].pc = "read_indices"
    /\ ix' = [ix EXCEPT ![c].pc = "store_data",
                        ![c].indices = indices,
                        ![c].existing = existing,
                        ![c].index = index,
                        ![c].kept = IF existing # None
                                    THEN [indices EXCEPT ![existing[1]] = entry]
                                    ELSE Append(indices, entry)]
    /\ UNCHANGED <<cacheVars, proc, status>>

\* set_wind_data(data, "{base_key}:{current_index}"); a failure ends the call.
\* indices.drain(..) follows without an await.
IxStoreData(c) ==
    LET w == SetWindData(kv, ix[c].data[1], IndexedKey(BaseKey, ix[c].index),
                         now)
        drop == Drain(ix[c].kept, MaxHistory)
    IN
    /\ ix[c].pc = "store_data"
    /\ kv' = w.s
    /\ ix' = IF w.r # "ok" THEN [ix EXCEPT ![c].pc = "failed"]
             ELSE [ix EXCEPT
                     ![c].pc = IF drop > 0 THEN "delete_old"
                               ELSE "write_indices",
                     ![c].old = SubSeq(ix[c].kept, 1, drop),
                     ![c].kept = SubSeq(ix[c].kept, drop + 1,
                                        Len(ix[c].kept))]
    /\ UNCHANGED <<now, last, got, proc, status>>

\* delete_data of the oldest entry still to delete.
IxDeleteOld(c) ==
    /\ ix[c].pc = "delete_old"
    /\ kv' = DeleteData(kv, IndexedKey(BaseKey, Head(ix[c].old).index))
    /\ ix' = [ix EXCEPT ![c].old = Tail(ix[c].old),
                        ![c].pc = IF Tail(ix[c].old) = << >>
                                  THEN "write_indices" ELSE "delete_old"]
    /\ UNCHANGED <<now, last, got, proc, status>>

\* conn.set_ex("{base_key}:indices", indices)
IxWriteIndices(c) ==
    /\ ix[c].pc = "write_indices"
    /\ kv' = SetEx(kv, IndicesKey(BaseKey), JIndices(ix[c].kept), now)
    /\ ix' = [ix EXCEPT ![c].pc = IF ix[c].existing = None
                                  THEN "write_current" ELSE "store_latest"]
    /\ UNCHANGED <<now, last, got, proc, status>>

\* conn.set_ex("{base_key}:current_index", current_index + 1)
IxWriteCurrent(c) ==
    /\ ix[c].pc = "write_current"
    /\ kv' = SetEx(kv, CurrentIndexKey(BaseKey), JNumber(ix[c].index + 1), now)
    /\ ix' = [ix EXCEPT ![c].pc = "store_latest"]
    /\ UNCHANGED <<now, last, got, proc, status>>

\* set_wind_data(data, base_key) and Ok(current_index)
IxStoreLatest(c) ==
    LET w == SetWindData(kv, ix[c].data[1], BaseKey, now) IN
    /\ ix[c].pc = "store_latest"
    /\ kv' = w.s
    /\ ix' = IF w.r # "ok" THEN [ix EXCEPT ![c].pc = "failed"]
             ELSE [ix EXCEPT ![c].pc = "done", ![c].ret = Some(ix[c].index)]
    /\ UNCHANGED <<now, last, got, proc, status>>

\* The cache before the two calls: empty, or as one earlier call left it.
InitRace ==
    /\ kv \in {EmptyStore} \cup
              {SetWindDataWithIndex(EmptyStore, d, BaseKey, MaxHistory, 0).s :
                  d \in SmallSnapshots}
    /\ now = 0
    /\ last = NoOp
    /\ got = NotRead
    /\ CacheOnly

NextRace ==
    \E c \in Callers :
        \/ \E data \in SmallSnapshots : IxBegin(c, data)
        \/ IxReadCurrent(c)
        \/ IxReadIndices(c)
        \/ IxStoreData(c)
        \/ IxDeleteOld(c)
        \/ IxWriteIndices(c)
        \/ IxWriteCurrent(c)
        \/ IxStoreLatest(c)

SpecRace == InitRace /\ [][NextRace]_vars

\* ------------------------------ setIndexed on one base key, cache failures

\* The key-value call a set_wind_data_with_index call is about to make
\* returns an error: the call returns it (.await?) with nothing written by
\* that step.
IxFault(c) ==
    /\ ix[c].pc \in {"read_current", "read_indices", "store_data",
                     "delete_old", "write_indices", "write_current",
                     "store_latest"}
    /\ ix' = [ix EXCEPT ![c].pc = "failed"]
    /\ UNCHANGED <<cacheVars, proc, status>>

\* Two calls one after the other, each of which may fail at any of its
\* key-value steps.
NextBroken ==
    \E c \in Callers :
        /\ \A d \in Callers \ {c} : ix[d].pc \in {"idle", "done", "failed"}
        /\ \/ \E data \in SmallSnapshots : IxBegin(c, data)
           \/ IxReadCurrent(c)
           \/ IxReadIndices(c)
           \/ IxStoreData(c)
           \/ IxDeleteOld(c)
           \/ IxWriteIndices(c)
           \/ IxWriteCurrent(c)
           \/ IxStoreLatest(c)
           \/ IxFault(c)

SpecBroken == InitRace /\ [][NextBroken]_vars

\* ------------------------------------------------------------ the scheduler

\* One hour, in ticks: the tolerance is two hours.
Hour == TOLERANCE \div 2

\* pub const WIND_POINTS_KEY, WIND_PNG_KEY, WIND_METADATA_KEY,
\* PRECIPITATION_POINTS_KEY, LAST_UPDATE_KEY
WIND_POINTS_KEY == PlainKey("wind:points")
WIND_PNG_KEY == PlainKey("wind:png")
WIND_METADATA_KEY == PlainKey("wind:metadata")
PRECIPITATION_POINTS_KEY == PlainKey("precipitation:points")
LAST_UPDATE_KEY == PlainKey("wind:last_update")

\* Scheduler::calculate_run_name at time t: the 6-hour cycle that holds
\* t - run_age hours.  The name (date and cycle hour) is the number of that
\* cycle.
CalculateRunName(t, runAge) == (t - runAge * Hour) \div (6 * Hour)

\* let desired_hours_back = [0, 3, 6, 9, 12, 15, 18, 21]; for run_age in
\* [6, 12, 18, 24]
DesiredHoursBack == <<0, 3, 6, 9, 12, 15, 18, 21>>
RunAges == <<6, 12, 18, 24>>

\* A choice of the last run age that gives a valid forecast offset.
TargetForOldestRun(hoursBack) ==
    LET valid == {k \in 1..Len(RunAges) :
                     LET forecastOffset == RunAges[k] - hoursBack IN
                     /\ forecastOffset >= 0
                     /\ forecastOffset % 3 = 0
                     /\ forecastOffset <= 24}
    IN  IF valid = {} THEN << >>
        ELSE LET k == CHOOSE x \in valid : \A y \in valid : x >= y
             IN  <<[run_age |-> RunAges[k], offset |-> RunAges[k] - hoursBack]>>

\* The first run age that gives a valid forecast offset for hours_back, as
\* the one-element list of its ForecastTarget, or no target.
TargetFor(hoursBack) ==
    LET valid == {k \in 1..Len(RunAges) :
                     LET forecastOffset == RunAges[k] - hoursBack IN
                     /\ forecastOffset >= 0
                     /\ forecastOffset % 3 = 0
                     /\ forecastOffset <= 24}
    IN  IF valid = {} THEN << >>
        ELSE LET k == CHOOSE x \in valid : \A y \in valid : x <= y
             IN  <<[run_age |-> RunAges[k], offset |-> RunAges[k] - hoursBack]>>

RECURSIVE TargetsFrom(_)
TargetsFrom(hoursBack) ==
    IF hoursBack = << >> THEN << >>
    ELSE TargetFor(Head(hoursBack)) \o TargetsFrom(Tail(hoursBack))

\* Scheduler::calculate_historical_forecast_targets
CalculateHistoricalForecastTargets == TargetsFrom(DesiredHoursBack)

\* The sort key of get_available_indices: the data time, 0 when absent.
DataTimeOrZero(e) == IF e.dt = None THEN 0 ELSE e.dt[1]

\* A sort that puts the oldest entry first.
RECURSIVE SortOldestFirst(_)
SortOldestFirst(ents) ==
    IF ents = << >> THEN << >>
    ELSE LET rest == SortOldestFirst(SubSeq(ents, 1, Len(ents) - 1))
             e == ents[Len(ents)]
             before == {k \in 1..Len(rest) :
                           DataTimeOrZero(rest[k]) <= DataTimeOrZero(e)}
             n == Cardinality(before)
         IN  SubSeq(rest, 1, n) \o <<e>> \o SubSeq(rest, n + 1, Len(rest))

\* Vec::sort_by(date_b.cmp(&date_a)): stable, newest first.
RECURSIVE SortNewestFirst(_)
SortNewestFirst(ents) ==
    IF ents = << >> THEN << >>
    ELSE LET rest == SortNewestFirst(SubSeq(ents, 1, Len(ents) - 1))
             e == ents[Len(ents)]
             before == {k \in 1..Len(rest) :
                           DataTimeOrZero(rest[k]) >= DataTimeOrZero(e)}
             n == Cardinality(before)
         IN  SubSeq(rest, 1, n) \o <<e>> \o SubSeq(rest, n + 1, Len(rest))

\* RedisClient::get_available_indices
GetAvailableIndices(s, base) == SortNewestFirst(Indices(s, base))

\* A dedup check with the comparison turned round.
AlreadyExistsBeyond(existing, dataTime) ==
    \E k \in 1..Len(existing) :
        /\ existing[k].dt # None
        /\ Abs(dataTime - existing[k].dt[1]) > TOLERANCE

\* A dedup check that takes only an entry of the same data time.
AlreadyExistsSameTime(existing, dataTime) ==
    \E k \in 1..Len(existing) : existing[k].dt = Some(dataTime)

\* The dedup check of fetch_and_store_single_forecast: some listed entry has
\* a data time less than the tolerance away.
AlreadyExists(existing, dataTime) ==
    \E k \in 1..Len(existing) :
        /\ existing[k].dt # None
        /\ Abs(dataTime - existing[k].dt[1]) < TOLERANCE

\* A check that takes any listed entry for the current run.
LatestAlreadyExistsAnyEntry(existing, currentRunName) == existing # << >>

\* The check of fetch_latest_forecast: some listed entry is of the current
\* run at offset 0.
LatestAlreadyExists(existing, currentRunName) ==
    \E k \in 1..Len(existing) :
        existing[k].rn = Some(currentRunName) /\ existing[k].fo = Some(0)

\* wind_data_json / precip_data_json of a cycle.  The downloaded points are
\* one small point here: these snapshots are stored unchunked.
SnapshotJson(p) ==
    JObject(Meta(Some(p.dataTime), Some(p.runName), Some(p.offset), 1),
            TRUE, <<1>>)

\* wind_data.metadata and wind_data.png_buffer of a cycle's download, known
\* by the cycle they come from.
MetadataJson(p) ==
    JObject(Meta(Some(p.dataTime), Some(p.runName), Some(p.offset), 1),
            FALSE, << >>)
PngBuffer(p) ==
    [JScalar(1) EXCEPT !.kind = "binary",
                       !.meta = Meta(Some(p.dataTime), Some(p.runName),
                                     Some(p.offset), 1)]

\* The summary record of a full-history fetch; pts carries successCount and
\* failureCount.
SummaryJson(ok, failed) ==
    [JObject(Meta(None, None, None, 1), FALSE, << >>) EXCEPT
        !.pts = <<ok, failed>>]

\* RedisClient::set_binary_data: the buffer, base64-encoded, under the key.
SetBinaryData(s, buffer, key, t) == SetEx(s, key, buffer, t)

\* RedisClient::set_binary_data_with_index
SetBinaryDataWithIndex(s, buffer, base, index, t) ==
    SetBinaryData(SetBinaryData(s, buffer, IndexedKey(base, index), t),
                  buffer, base, t)

\* The targets a full-history fetch goes through here: the first MaxTargets.
MaxTargets == 2
FullTargets ==
    SubSeq(CalculateHistoricalForecastTargets, 1,
           Min(MaxTargets, Len(CalculateHistoricalForecastTargets)))

\* set_wind_data_with_index(.., 20) in fetch_and_store_single_forecast
SchedulerMaxHistory == 20

\* The targets of a fetch: all of them for the fetch at startup and for the
\* full-history fetch that is followed to its end ("history").
Targets(mode) ==
    IF mode \in {"startup", "history"} THEN CalculateHistoricalForecastTargets
    ELSE FullTargets

\* A fetch returns ret to its caller, having met the failures faults.
Return(ret, faults) == [ProcIdle EXCEPT !.ret = ret, !.faults = faults]

\* fetch_and_store_single_forecast returns to its caller, Ok(true) for the
\* outcome "ok", else Err after an upstream or a cache failure.
\* fetch_latest_forecast returns the same in turn (.await?);
\* fetch_historical_24h counts the result and sleeps 1 s.
EndCycle(p, outcome) ==
    LET faults == IF outcome = "ok" THEN p.faults
                  ELSE p.faults \cup {outcome}
    IN  IF p.mode = "latest"
        THEN Return(IF outcome = "ok" THEN "ok_true" ELSE "err", faults)
        ELSE [p EXCEPT !.pc = "sleep",
                       !.ok = IF outcome = "ok" THEN p.ok + 1 ELSE p.ok,
                       !.failed = IF outcome = "ok" THEN p.failed
                                  ELSE p.failed + 1,
                       !.existing = << >>,
                       !.wrote = << >>,
                       !.faults = faults]

\* fetch_latest_forecast up to its call of fetch_and_store_single_forecast:
\* the index list is read; if the current run is listed at offset 0 the
\* fetch returns, else the cycle (0, 0) starts.
LatestCheck(a) ==
    /\ proc[a].pc = "idle"
    /\ proc' = [proc EXCEPT ![a] =
          IF LatestAlreadyExists(GetAvailableIndices(kv, WIND_POINTS_KEY),
                                 CalculateRunName(now, 0))
          THEN Return("ok_true", {})
          ELSE [ProcIdle EXCEPT !.pc = "cycle", !.mode = "latest"]]
    /\ UNCHANGED <<cacheVars, ix, status>>

\* fetch_historical_24h starts on its first target (manual trigger).
BeginFull(a) ==
    /\ a = "manual"
    /\ proc[a].pc = "idle"
    /\ proc' = [proc EXCEPT ![a] =
          [ProcIdle EXCEPT !.pc = "cycle", !.mode = "full", !.ti = 1,
                           !.offset = FullTargets[1].offset,
                           !.runAge = FullTargets[1].run_age]]
    /\ UNCHANGED <<cacheVars, ix, status>>

\* fetch_and_store_single_forecast up to the download: run_name and data_time
\* are taken from the clock, the index list is read and the dedup check made.
CycleCheck(a) ==
    LET p == proc[a]
        dataTime == now - (p.runAge - p.offset) * Hour
        existing == GetAvailableIndices(kv, WIND_POINTS_KEY)
        q == [p EXCEPT !.dataTime = dataTime,
                       !.runName = CalculateRunName(now, p.runAge),
                       !.existing = existing]
    IN
    /\ p.pc = "cycle"
    /\ proc' = [proc EXCEPT ![a] =
          IF AlreadyExists(existing, dataTime) THEN EndCycle(q, "ok")
          ELSE [q EXCEPT !.pc = "send_wind"]]
    /\ UNCHANGED <<cacheVars, ix, status>>

\* download_wind_data_opendap sends its request upstream.
SendWindRequest(a) ==
    /\ proc[a].pc = "send_wind"
    /\ proc' = [proc EXCEPT ![a].pc = "wind_wait",
                            ![a].windFor =
                                Append(@, proc[a].runAge - proc[a].offset)]
    /\ UNCHANGED <<cacheVars, ix, status>>

\* The download ends: with the wind data, or with an error, which ends the
\* cycle (.await?).
WindResponse(a, success) ==
    /\ proc[a].pc = "wind_wait"
    /\ proc' = [proc EXCEPT ![a] =
          IF success THEN [proc[a] EXCEPT !.pc = "store_wind"]
          ELSE EndCycle(proc[a], "upstream")]
    /\ UNCHANGED <<cacheVars, ix, status>>

\* The wind write calls of a cycle, in order: the points with index, the
\* image with the same index, the metadata at that index and, for the cycle
\* (0, 0), the metadata as latest.
WindWriteCalls == 4

\* The last wind write call, n = WindWriteCalls: the metadata as latest, for
\* the cycle (0, 0) only.
LatestMetadata(s, p, t, n) ==
    IF n >= WindWriteCalls /\ p.runAge = 0 /\ p.offset = 0
    THEN SetWindData(s, MetadataJson(p), WIND_METADATA_KEY, t).s
    ELSE s

\* The wind write calls after the first, which has returned w: the store
\* after the calls up to call n, made on w's store with w's index.
WindWritesAfter(w, p, t, n) ==
    LET png == IF n >= 2
               THEN SetBinaryDataWithIndex(w.s, PngBuffer(p), WIND_PNG_KEY,
                                           w.idx[1], t)
               ELSE w.s
    IN  IF n >= 3
        THEN LatestMetadata(SetWindData(png, MetadataJson(p),
                                        IndexedKey(WIND_METADATA_KEY,
                                                   w.idx[1]), t).s,
                            p, t, n)
        ELSE png

\* The store after the first n wind write calls of the cycle of p at time t,
\* the index the first call returned and the writes completed.
WindWrites(s, p, t, n) ==
    LET w == SetWindDataWithIndex(s, SnapshotJson(p), WIND_POINTS_KEY,
                                  SchedulerMaxHistory, t)
    IN  [s |-> IF n = 0 THEN s ELSE WindWritesAfter(w, p, t, n),
         index |-> w.idx[1],
         wrote |-> SubSeq(<<"points", "png", "metadata">>, 1, Min(n, 3))]

\* The wind writes of the cycle, all of them.
StoreWind(a) ==
    LET p == proc[a]
        w == WindWrites(kv, p, now, WindWriteCalls)
    IN
    /\ p.pc = "store_wind"
    /\ kv' = w.s
    /\ proc' = [proc EXCEPT ![a].pc = "send_precip", ![a].index = w.index,
                            ![a].wrote = <<"points", "png", "metadata">>]
    /\ UNCHANGED <<now, last, got, ix, status>>

\* download_precipitation_data_opendap sends its request upstream.
SendPrecipRequest(a) ==
    /\ proc[a].pc = "send_precip"
    /\ proc' = [proc EXCEPT ![a].pc = "precip_wait",
                            ![a].precipFor =
                                Append(@, proc[a].runAge - proc[a].offset)]
    /\ UNCHANGED <<cacheVars, ix, status>>

\* The precipitation download ends: with the data, or with an error, which
\* is logged; the cycle then returns Ok(true).
PrecipResponse(a, success) ==
    /\ proc[a].pc = "precip_wait"
    /\ proc' = [proc EXCEPT ![a] =
          IF success THEN [proc[a] EXCEPT !.pc = "store_precip"]
          ELSE EndCycle([proc[a] EXCEPT !.faults = @ \cup {"precipitation"}],
                        "ok")]
    /\ UNCHANGED <<cacheVars, ix, status>>

\* The precipitation writes of the cycle: with index and, for the cycle
\* (0, 0), once more as latest.
StorePrecip(a) ==
    LET p == proc[a]
        w == SetWindDataWithIndex(kv, SnapshotJson(p),
                                  PRECIPITATION_POINTS_KEY,
                                  SchedulerMaxHistory, now)
        s1 == IF p.runAge = 0 /\ p.offset = 0
              THEN SetWindData(w.s, SnapshotJson(p), PRECIPITATION_POINTS_KEY,
                               now).s
              ELSE w.s
    IN
    /\ p.pc = "store_precip"
    /\ kv' = s1
    /\ proc' = [proc EXCEPT ![a] = EndCycle(p, "ok")]
    /\ UNCHANGED <<now, last, got, ix, status>>

\* The 1 s sleep of fetch_historical_24h is over: the next target, or the end
\* of the loop.
Wake(a) ==
    LET p == proc[a] IN
    /\ p.pc = "sleep"
    /\ proc' = [proc EXCEPT ![a] =
          IF p.ti < Len(Targets(p.mode))
          THEN [p EXCEPT !.pc = "cycle", !.ti = p.ti + 1,
                         !.offset = Targets(p.mode)[p.ti + 1].offset,
                         !.runAge = Targets(p.mode)[p.ti + 1].run_age]
          ELSE [p EXCEPT !.pc = "summary"]]
    /\ UNCHANGED <<cacheVars, ix, status>>

\* fetch_historical_24h returns ret.  When it is the fetch of start, start
\* then spawns the recurring job and returns, and the HTTP server starts:
\* the activities that were waiting for it are idle from now on.
ReturnFull(a, ret, faults) ==
    [b \in DOMAIN proc |->
        IF b = a THEN Return(ret, faults)
        ELSE IF proc[a].mode = "startup" /\ proc[b].pc = "down" THEN ProcIdle
        ELSE proc[b]]

\* The end of fetch_historical_24h: the summary record and last_fetch.
Summary(a) ==
    LET p == proc[a] IN
    /\ p.pc = "summary"
    /\ kv' = SetWindData(kv, SummaryJson(p.ok, p.failed), LAST_UPDATE_KEY,
                         now).s
    /\ status' = [status EXCEPT !.lastFetch =
                     Some([success |-> p.ok > 0, dataPoints |-> p.ok])]
    /\ proc' = ReturnFull(a, IF p.ok > 0 THEN "ok_true" ELSE "ok_false",
                          p.faults)
    /\ UNCHANGED <<now, last, got, ix>>

\* The server has been up for more than the TTL with no fetch succeeding: the
\* cache is empty, the startup fetch has reported its failure.
InitSched ==
    /\ kv = EmptyStore
    /\ now = 0
    /\ last = NoOp
    /\ got = NotRead
    /\ ix = NoCalls
    /\ proc = AllIdle
    /\ status = [running |-> TRUE,
                 lastFetch |-> Some([success |-> FALSE, dataPoints |-> 0])]

NextSched ==
    \E a \in Activities :
        \/ LatestCheck(a)
        \/ BeginFull(a)
        \/ CycleCheck(a)
        \/ SendWindRequest(a)
        \/ \E success \in BOOLEAN : WindResponse(a, success)
        \/ StoreWind(a)
        \/ SendPrecipRequest(a)
        \/ \E success \in BOOLEAN : PrecipResponse(a, success)
        \/ StorePrecip(a)
        \/ Wake(a)
        \/ Summary(a)

SpecSched == InitSched /\ [][NextSched]_vars

\* ------------------------------------ the wind writes of a cycle, eviction

\* The locals of the cycle that stores data: a historical target, or the
\* latest-only target when latest.
CycleOf(data, latest) ==
    [ProcIdle EXCEPT !.dataTime = data.meta.dt[1],
                     !.runAge = IF latest THEN 0 ELSE RunAges[1],
                     !.offset = IF latest THEN 0 ELSE RunAges[1]]

\* The wind write calls of fetch_and_store_single_forecast for the snapshot
\* data, the history depth of the first being MaxHistory: the points with
\* index, the image and the metadata at the index returned, and the metadata
\* as latest for the latest-only target.
StoreWindSnapshot(data, latest) ==
    LET w == SetWindDataWithIndex(kv, data, WIND_POINTS_KEY, MaxHistory, now)
    IN  /\ CurrentIndex(kv, WIND_POINTS_KEY) < MaxIndex
        /\ w.r = "ok"
        /\ kv' = WindWritesAfter(w, CycleOf(data, latest), now,
                                 WindWriteCalls)
        /\ last' = [op |-> "setIndexed", arg |-> Some(data), res |-> w.r,
                    fresh |-> (kv = EmptyStore), idx |-> w.idx,
                    pre |-> Indices(kv, WIND_POINTS_KEY),
                    preCur |-> CurrentIndex(kv, WIND_POINTS_KEY)]
        /\ got' = NotRead
        /\ UNCHANGED <<now, ix, proc, status>>

\* Cycles storing their snapshots one after the other within one TTL window.
NextEvict ==
    \E data \in {d \in Snapshots : d.meta.dt # None}, latest \in BOOLEAN :
        StoreWindSnapshot(data, latest)

SpecEvict == Init /\ [][NextEvict]_vars

\* ------------------------------------------- the scheduler, cache failures

\* fetch_latest_forecast: get_available_indices fails (.await?).
LatestCheckFault(a) ==
    /\ proc[a].pc = "idle"
    /\ proc' = [proc EXCEPT ![a] = Return("err", {"cache"})]
    /\ UNCHANGED <<cacheVars, ix, status>>

\* fetch_and_store_single_forecast: get_available_indices fails (.await?).
CycleCheckFault(a) ==
    /\ proc[a].pc = "cycle"
    /\ proc' = [proc EXCEPT ![a] = EndCycle(proc[a], "cache")]
    /\ UNCHANGED <<cacheVars, ix, status>>

\* A failed wind write that is taken for done: the cycle goes on.
StoreWindFaultIgnored(a, failing) ==
    /\ proc[a].pc = "store_wind"
    /\ kv' = WindWrites(kv, proc[a], now, failing - 1).s
    /\ proc' = [proc EXCEPT ![a].pc = "send_precip",
                            ![a].wrote = WindWrites(kv, proc[a], now,
                                                    failing - 1).wrote]
    /\ UNCHANGED <<now, last, got, ix, status>>

\* The wind write call number failing fails (.await?), the calls before it
\* having been made; the call as latest is only made for the cycle (0, 0).
StoreWindFault(a, failing) ==
    LET p == proc[a]
        w == WindWrites(kv, p, now, failing - 1)
    IN
    /\ p.pc = "store_wind"
    /\ failing = WindWriteCalls => (p.runAge = 0 /\ p.offset = 0)
    /\ kv' = w.s
    /\ proc' = [proc EXCEPT ![a] =
                   EndCycle([p EXCEPT !.wrote = w.wrote], "cache")]
    /\ UNCHANGED <<now, last, got, ix, status>>

\* The indexed precipitation write fails, inside the Ok arm of the match on
\* the download (.await?).
StorePrecipFault(a) ==
    /\ proc[a].pc = "store_precip"
    /\ proc' = [proc EXCEPT ![a] = EndCycle(proc[a], "cache")]
    /\ UNCHANGED <<cacheVars, ix, status>>

\* The write of the summary record fails (.await?): fetch_historical_24h
\* returns Err before the status update.
SummaryFault(a) ==
    /\ proc[a].pc = "summary"
    /\ proc' = ReturnFull(a, "err", proc[a].faults \cup {"cache"})
    /\ UNCHANGED <<cacheVars, ix, status>>

CacheFault(a) ==
    \/ LatestCheckFault(a)
    \/ CycleCheckFault(a)
    \/ \E failing \in 1..WindWriteCalls : StoreWindFault(a, failing)
    \/ StorePrecipFault(a)
    \/ SummaryFault(a)

\* The fetches of the recurring job and of a manual trigger, with an
\* upstream and a cache that may fail.
NextFault ==
    \/ NextSched
    \/ \E a \in Activities : CacheFault(a)

SpecFault == InitSched /\ [][NextFault]_vars

\* --------------------------------------------------- the scheduler, startup

\* A start that leaves running as it was.
StartNotMarked(a) ==
    /\ a = "background"
    /\ proc[a].pc = "new"
    /\ proc' = [proc EXCEPT ![a].pc = "started"]
    /\ UNCHANGED <<cacheVars, ix, status>>

\* Scheduler::start, first step: running is set.
Start(a) ==
    /\ a = "background"
    /\ proc[a].pc = "new"
    /\ status' = [status EXCEPT !.running = TRUE]
    /\ proc' = [proc EXCEPT ![a].pc = "started"]
    /\ UNCHANGED <<cacheVars, ix>>

\* Scheduler::start calls fetch_historical_24h, which starts on its first
\* target.
BeginStartupFetch(a) ==
    /\ proc[a].pc = "started"
    /\ proc' = [proc EXCEPT ![a] =
          [ProcIdle EXCEPT !.pc = "cycle", !.mode = "startup", !.ti = 1,
                           !.offset = Targets("startup")[1].offset,
                           !.runAge = Targets("startup")[1].run_age]]
    /\ UNCHANGED <<cacheVars, ix, status>>

\* Scheduler::new, before run calls start: the status is the default, the
\* recurring job is not spawned and the HTTP server is not started.
InitStartup ==
    /\ kv = EmptyStore
    /\ now = 0
    /\ last = NoOp
    /\ got = NotRead
    /\ ix = NoCalls
    /\ proc = [a \in Activities |->
                 [ProcIdle EXCEPT !.pc = IF a = "background" THEN "new"
                                         ELSE "down"]]
    /\ status = SchedulerStatusDefault

\* The process from its start: the startup fetch, then the recurring job.
\* The upstream may fail any download; of the cache calls, the summary write
\* may fail, which is the one failure that makes the startup fetch return
\* Err.
NextStartup ==
    \E a \in {"background"} :
        \/ Start(a)
        \/ BeginStartupFetch(a)
        \/ LatestCheck(a)
        \/ CycleCheck(a)
        \/ SendWindRequest(a)
        \/ \E success \in BOOLEAN : WindResponse(a, success)
        \/ StoreWind(a)
        \/ SendPrecipRequest(a)
        \/ \E success \in BOOLEAN : PrecipResponse(a, success)
        \/ StorePrecip(a)
        \/ Wake(a)
        \/ Summary(a)
        \/ SummaryFault(a)

SpecStartup == InitStartup /\ [][NextStartup]_vars

\* ------------------------------------- the scheduler, a second full fetch

\* Ticks that may pass between the startup fetch and the manual trigger.
MaxPause == 2

\* POST /api/wind-refresh once the server is up: fetch_historical_24h starts
\* on its first target, with all its targets.  One trigger is followed.
BeginHistory(a) ==
    /\ a = "manual"
    /\ proc[a].pc = "idle"
    /\ proc[a].ret = "none"
    /\ proc' = [proc EXCEPT ![a] =
          [ProcIdle EXCEPT !.pc = "cycle", !.mode = "history", !.ti = 1,
                           !.offset = Targets("history")[1].offset,
                           !.runAge = Targets("history")[1].run_age]]
    /\ UNCHANGED <<cacheVars, ix, status>>

\* Half an hour passes between the startup fetch and the trigger.
Pause ==
    /\ proc["manual"].pc = "idle"
    /\ proc["manual"].ret = "none"
    /\ now < MaxPause
    /\ Tick

\* The startup fetch, every download of which succeeds, and then, after
\* some time, a full-history fetch by the manual trigger, whose downloads
\* may fail.
NextAgain ==
    \/ \E a \in Activities :
          \/ Start(a)
          \/ BeginStartupFetch(a)
          \/ BeginHistory(a)
          \/ CycleCheck(a)
          \/ SendWindRequest(a)
          \/ \E success \in BOOLEAN :
                (a = "background" => success) /\ WindResponse(a, success)
          \/ StoreWind(a)
          \/ SendPrecipRequest(a)
          \/ \E success \in BOOLEAN :
                (a = "background" => success) /\ PrecipResponse(a, success)
          \/ StorePrecip(a)
          \/ Wake(a)
          \/ Summary(a)
    \/ Pause

SpecAgain == InitStartup /\ [][NextAgain]_vars

\* ------------------------------------------- run selector, upstream fetcher

\* A day and the 6 hours between two runs, in ticks.  The clock counts from
\* a midnight UTC.
DayTicks == 24 * Hour
RunTicks == 6 * Hour

\* hours_waited >= 5.5
ReadyAfter == (11 * Hour) \div 2

\* The run at or before the time t: the time with its hour rounded down to
\* 0, 6, 12 or 18 and minutes and seconds cleared.
RoundToRun(t) == t - (t % RunTicks)

\* ForecastRun of the run time rt as seen at the time t: date (the day),
\* hour (of the day), full_date, hours_waited (in ticks).
ForecastRun(rt, t) ==
    [date |-> rt \div DayTicks, hour |-> (rt % DayTicks) \div Hour,
     full_date |-> rt, hours_waited |-> t - rt]

\* Vec::dedup_by(same date and hour): of consecutive equal elements the
\* first is kept.
RECURSIVE DedupBy(_)
DedupBy(runs) ==
    IF Len(runs) <= 1 THEN runs
    ELSE LET front == DedupBy(SubSeq(runs, 1, Len(runs) - 1))
             e == runs[Len(runs)]
             prev == front[Len(front)]
         IN  IF e.date = prev.date /\ e.hour = prev.hour THEN front
             ELSE Append(front, e)

\* A comparison that prefers the runs that are not ready.
RunBeforeUnready(a, b) ==
    LET aReady == IF a.hours_waited >= ReadyAfter THEN 1 ELSE 0
        bReady == IF b.hours_waited >= ReadyAfter THEN 1 ELSE 0
    IN  IF aReady # bReady THEN aReady < bReady
        ELSE b.full_date < a.full_date

\* The comparison of runs.sort_by: a sorts strictly before b.
RunBefore(a, b) ==
    LET aReady == IF a.hours_waited >= ReadyAfter THEN 1 ELSE 0
        bReady == IF b.hours_waited >= ReadyAfter THEN 1 ELSE 0
    IN  IF aReady # bReady THEN bReady < aReady
        ELSE b.full_date < a.full_date

\* Vec::sort_by with that comparison: stable.
RECURSIVE SortRuns(_)
SortRuns(runs) ==
    IF runs = << >> THEN << >>
    ELSE LET rest == SortRuns(SubSeq(runs, 1, Len(runs) - 1))
             e == runs[Len(runs)]
             n == Cardinality({k \in 1..Len(rest) : ~RunBefore(e, rest[k])})
         IN  SubSeq(rest, 1, n) \o <<e>> \o SubSeq(rest, n + 1, Len(rest))

\* get_available_forecast_runs at the time t: the runs of the last 8 times
\* 6 hours, without duplicates, ready runs first, newest first.
GetAvailableForecastRuns(t) ==
    SortRuns(DedupBy([k \in 1..8 |->
                         ForecastRun(RoundToRun(t - (k - 1) * RunTicks), t)]))

\* A target time that is not rounded down to a run.
GetHistoricalForecastRunUnrounded(t, runAge) ==
    LET target == t - runAge * Hour IN
    <<ForecastRun(target, t), ForecastRun(target - RunTicks, t),
      ForecastRun(target + RunTicks, t)>>

\* get_historical_forecast_run at the time t: the run run_age hours ago,
\* then the runs 6 hours before and after it.
GetHistoricalForecastRun(t, runAge) ==
    LET target == RoundToRun(t - runAge * Hour) IN
    <<ForecastRun(target, t), ForecastRun(target - RunTicks, t),
      ForecastRun(target + RunTicks, t)>>

\* The run ages the scheduler asks for, and the two downloads.
FetchRunAges == {0} \cup {RunAges[k] : k \in 1..Len(RunAges)}
DownloadKinds == {"wind", "precipitation"}

\* The outcome of download_*_data_for_run: the data ("ok"), or the error of
\* the west request, of the east request or of the parser.
Outcomes == {"ok", "west", "east", "parse"}

\* What is kept of an outcome for the run requested: Ok or Err.
Tried(outcome) == IF outcome = "ok" THEN "ok" ELSE "err"

\* download_wind_data_opendap / download_precipitation_data_opendap is
\* called: the candidates are taken from the run selector.
DownloadBegin(a, kind, runAge) ==
    /\ proc[a].dl.pc \in {"idle", "ok", "failed"}
    /\ proc' = [proc EXCEPT ![a].dl =
          [DlIdle EXCEPT !.pc = "loop", !.kind = kind, !.runAge = runAge,
                         !.i = 1,
                         !.runs = IF runAge > 0
                                  THEN GetHistoricalForecastRun(now, runAge)
                                  ELSE GetAvailableForecastRuns(now)]]
    /\ UNCHANGED <<cacheVars, ix, status>>

\* The loop takes its next run and requests it, or is over: Err(last_error).
Attempt(a) ==
    LET d == proc[a].dl IN
    /\ d.pc = "loop"
    /\ proc' = [proc EXCEPT ![a].dl =
          IF d.i <= Len(d.runs)
          THEN [d EXCEPT !.pc = "wait",
                         !.tried = Append(@, [run |-> d.runs[d.i],
                                              outcome |-> "pending"])]
          ELSE [d EXCEPT !.pc = "failed"]]
    /\ UNCHANGED <<cacheVars, ix, status>>

\* An Ok arm that does not return.
AttemptResultGoesOn(a, outcome) ==
    LET d == proc[a].dl IN
    /\ d.pc = "wait"
    /\ proc' = [proc EXCEPT ![a].dl =
          [d EXCEPT !.pc = "loop", !.i = d.i + 1,
                    !.tried[Len(d.tried)].outcome = Tried(outcome),
                    !.lastError = IF outcome = "ok" THEN d.lastError
                                  ELSE Some([run |-> d.runs[d.i],
                                             what |-> outcome]),
                    !.result = IF outcome = "ok" THEN Some(d.runs[d.i])
                               ELSE d.result]]
    /\ UNCHANGED <<cacheVars, ix, status>>

\* An Err arm that keeps the first error.
AttemptResultFirstError(a, outcome) ==
    LET d == proc[a].dl IN
    /\ d.pc = "wait"
    /\ proc' = [proc EXCEPT ![a].dl =
          IF outcome = "ok"
          THEN [d EXCEPT !.pc = "ok", !.result = Some(d.runs[d.i]),
                         !.tried[Len(d.tried)].outcome = Tried(outcome)]
          ELSE [d EXCEPT !.pc = "loop", !.i = d.i + 1,
                         !.tried[Len(d.tried)].outcome = Tried(outcome),
                         !.lastError =
                             IF d.lastError = None
                             THEN Some([run |-> d.runs[d.i],
                                        what |-> outcome])
                             ELSE d.lastError]]
    /\ UNCHANGED <<cacheVars, ix, status>>

\* download_*_data_for_run returns: on Ok the download returns the data
\* stamped with the run; on Err the error is kept as last_error and the loop
\* goes on.
AttemptResult(a, outcome) ==
    LET d == proc[a].dl IN
    /\ d.pc = "wait"
    /\ proc' = [proc EXCEPT ![a].dl =
          IF outcome = "ok"
          THEN [d EXCEPT !.pc = "ok", !.result = Some(d.runs[d.i]),
                         !.tried[Len(d.tried)].outcome = Tried(outcome)]
          ELSE [d EXCEPT !.pc = "loop", !.i = d.i + 1,
                         !.tried[Len(d.tried)].outcome = Tried(outcome),
                         !.lastError = Some([run |-> d.runs[d.i],
                                             what |-> outcome])]]
    /\ UNCHANGED <<cacheVars, ix, status>>

\* One activity downloading, at any half hour of a day.
InitFetch ==
    /\ kv = EmptyStore
    /\ now \in (2 * DayTicks)..(3 * DayTicks)
    /\ last = NoOp
    /\ got = NotRead
    /\ ix = NoCalls
    /\ proc = AllIdle
    /\ status = [running |-> TRUE, lastFetch |-> None]

NextFetch ==
    \E a \in {"background"} :
        \/ \E kind \in DownloadKinds, runAge \in FetchRunAges :
              DownloadBegin(a, kind, runAge)
        \/ Attempt(a)
        \/ \E outcome \in Outcomes : AttemptResult(a, outcome)

SpecFetch == InitFetch /\ [][NextFetch]_vars

\* ------------------------------------- the fetch cycle with its downloads

\* fetch_and_store_single_forecast calls download_wind_data_opendap with its
\* run_age: the candidates are taken from the run selector.
DownloadWindCall(a) ==
    LET p == proc[a] IN
    /\ p.pc = "send_wind"
    /\ proc' = [proc EXCEPT ![a] =
          [p EXCEPT !.pc = "wind_wait",
                    !.windFor = Append(@, p.runAge - p.offset),
                    !.dl = [DlIdle EXCEPT
                               !.pc = "loop", !.kind = "wind",
                               !.runAge = p.runAge, !.i = 1,
                               !.runs = IF p.runAge > 0
                                        THEN GetHistoricalForecastRun(now,
                                                                 p.runAge)
                                        ELSE GetAvailableForecastRuns(now)]]]
    /\ UNCHANGED <<cacheVars, ix, status>>

\* download_wind_data_opendap returns: the data of the run that succeeded
\* goes on to the wind writes, the error ends the cycle (.await?).
DownloadWindReturn(a) ==
    LET p == proc[a] IN
    /\ p.pc = "wind_wait"
    /\ p.dl.pc \in {"ok", "failed"}
    /\ proc' = [proc EXCEPT ![a] =
          IF p.dl.pc = "ok" THEN [p EXCEPT !.pc = "store_wind"]
          ELSE EndCycle(p, "upstream")]
    /\ UNCHANGED <<cacheVars, ix, status>>

\* fetch_and_store_single_forecast calls
\* download_precipitation_data_opendap with the same run_age.
DownloadPrecipCall(a) ==
    LET p == proc[a] IN
    /\ p.pc = "send_precip"
    /\ proc' = [proc EXCEPT ![a] =
          [p EXCEPT !.pc = "precip_wait",
                    !.precipFor = Append(@, p.runAge - p.offset),
                    !.dl = [DlIdle EXCEPT
                               !.pc = "loop", !.kind = "precipitation",
                               !.runAge = p.runAge, !.i = 1,
                               !.runs = IF p.runAge > 0
                                        THEN GetHistoricalForecastRun(now,
                                                                 p.runAge)
                                        ELSE GetAvailableForecastRuns(now)]]]
    /\ UNCHANGED <<cacheVars, ix, status>>

\* download_precipitation_data_opendap returns: the data goes on to the
\* precipitation writes, the error is logged and the cycle returns Ok(true).
DownloadPrecipReturn(a) ==
    LET p == proc[a] IN
    /\ p.pc = "precip_wait"
    /\ p.dl.pc \in {"ok", "failed"}
    /\ proc' = [proc EXCEPT ![a] =
          IF p.dl.pc = "ok" THEN [p EXCEPT !.pc = "store_precip"]
          ELSE EndCycle([p EXCEPT !.faults = @ \cup {"precipitation"}],
                        "ok")]
    /\ UNCHANGED <<cacheVars, ix, status>>

\* A server that is up with an empty cache, at any half hour of a 6-hour
\* run cycle.
InitStamp ==
    /\ kv = EmptyStore
    /\ now \in (2 * DayTicks)..(2 * DayTicks + RunTicks - 1)
    /\ last = NoOp
    /\ got = NotRead
    /\ ix = NoCalls
    /\ proc = AllIdle
    /\ status = [running |-> TRUE,
                 lastFetch |-> Some([success |-> FALSE, dataPoints |-> 0])]

\* The fetches of one trigger handler, latest-only and full-history, each
\* download going through the candidates of the run selector.
NextStamp ==
    \E a \in {"manual"} :
        \/ LatestCheck(a)
        \/ BeginFull(a)
        \/ CycleCheck(a)
        \/ DownloadWindCall(a)
        \/ DownloadWindReturn(a)
        \/ StoreWind(a)
        \/ DownloadPrecipCall(a)
        \/ DownloadPrecipReturn(a)
        \/ StorePrecip(a)
        \/ Wake(a)
        \/ Summary(a)
        \/ /\ proc[a].pc \in {"wind_wait", "precip_wait"}
           /\ \/ Attempt(a)
              \/ \E outcome \in Outcomes : AttemptResult(a, outcome)

SpecStamp == InitStamp /\ [][NextStamp]_vars

\* ------------------------------------------------------ reading the index list

\* A call set_wind_data_with_index(data, base_key, 20), as the scheduler
\* makes it: the history depth is never reached here.
SetIndexedDeep(data) ==
    LET out == SetWindDataWithIndex(kv, data, BaseKey, SchedulerMaxHistory,
                                    now) IN
    /\ CurrentIndex(kv, BaseKey) < MaxIndex
    /\ kv' = out.s
    /\ last' = [op |-> "setIndexed", arg |-> Some(data), res |-> out.r,
                fresh |-> (kv = EmptyStore), idx |-> out.idx,
                pre |-> Indices(kv, BaseKey),
                preCur |-> CurrentIndex(kv, BaseKey)]
    /\ got' = NotRead
    /\ UNCHANGED <<now, ix, proc, status>>

\* A call get_available_indices(base_key).
ListIndices ==
    /\ got' = [done |-> TRUE, out |-> Some(GetAvailableIndices(kv, BaseKey))]
    /\ UNCHANGED <<kv, now, last, ix, proc, status>>

\* Writes and reads of the index list within one TTL window.
NextList ==
    \/ \E data \in SmallSnapshots : SetIndexedDeep(data)
    \/ ListIndices

SpecList == Init /\ [][NextList]_vars

\* ---------------------------------------------------------- the grid parser

\* The lines of an upstream response, and the numbers on one line.
MaxLines == 10
MaxNums == 2

\* What the parsers tell apart in a trimmed line: a line that starts with
\* "lat," or "lat[", with "lon," or "lon[", with "ugrd10m,", with
\* "vgrd10m,", with "pratesfc,", with "time," or "time[", an empty line, a
\* line that starts with '[' ("indexed"), another line whose first character
\* is not alphabetic ("numbers") and another line whose first character is
\* alphabetic ("text").
LineKinds == {"lat", "lon", "ugrd10m", "vgrd10m", "pratesfc", "time",
              "blank", "indexed", "numbers", "text"}

\* The two parsers.
ParserKinds == {"wind", "precipitation"}

\* The headers of planes a parser knows, and the variable of each.
PlaneHeaders(kind) ==
    IF kind = "wind" THEN {"ugrd10m", "vgrd10m"} ELSE {"pratesfc"}
PlaneVariable(header) ==
    CASE header = "ugrd10m" -> "ugrd"
      [] header = "vgrd10m" -> "vgrd"
      [] header = "pratesfc" -> "prate"

\* The section of the input a header line opens: the first latitude and the
\* first longitude header open "lat" and "lon", a later one "lat_again" and
\* "lon_again"; a plane header the parser knows opens the section of its
\* name, the time header "time".
SectionAfter(p, line) ==
    IF line \in {"lat", "lon"}
    THEN IF line \in p.seen THEN IF line = "lat" THEN "lat_again"
                                 ELSE "lon_again"
         ELSE line
    ELSE IF line \in PlaneHeaders(p.kind) \cup {"time"} THEN line
    ELSE p.section

\* What is kept beside the locals after a line of the kind line.
Noted(p, line) ==
    LET sec == SectionAfter(p, line) IN
    [p EXCEPT !.n = p.n + 1, !.section = sec,
              !.seen = IF line \in {"lat", "lon", "time"}
                          \cup PlaneHeaders(p.kind)
                       THEN p.seen \cup {line} ELSE p.seen,
              !.offered = IF /\ line \in {"indexed", "numbers"}
                             /\ sec \in {"lat_again", "lon_again", "time"}
                          THEN p.offered \cup {sec} ELSE p.offered]

\* extract_numbers / extract_numbers_from_indexed_line on a line with cnt
\* numbers, read in the section sec.
ExtractNumbers(sec, cnt) == [k \in 1..cnt |-> sec]

\* values.extend(nums) on the vector of the current variable v.
Extend(p, v, nums) ==
    CASE v = "lat" -> [p EXCEPT !.lat_values = @ \o nums]
      [] v = "lon" -> [p EXCEPT !.lon_values = @ \o nums]
      [] v = "ugrd" -> [p EXCEPT !.u_values = @ \o nums]
      [] v = "vgrd" -> [p EXCEPT !.v_values = @ \o nums]
      [] v = "prate" -> [p EXCEPT !.prate_values = @ \o nums]

\* An axis header that is taken whenever it is met.
AxisHeaderTakenAgain(p, line) ==
    [p EXCEPT !.current_variable = Some(line), !.in_data_section = TRUE,
              !.parsed = @ \cup {line}]

\* A "lat" or "lon" header: the first one makes the axis the current
\* variable and opens its data section, a later one clears both.
AxisHeader(p, line) ==
    IF line \notin p.parsed
    THEN [p EXCEPT !.current_variable = Some(line), !.in_data_section = TRUE,
                   !.parsed = @ \cup {line}]
    ELSE [p EXCEPT !.current_variable = None, !.in_data_section = FALSE]

\* The header of a plane: the first one makes the plane the current
\* variable, its data section opening with the first indexed line; a later
\* one clears both.
PlaneHeader(p, line) ==
    IF PlaneVariable(line) \notin p.parsed
    THEN [p EXCEPT !.current_variable = Some(PlaneVariable(line)),
                   !.in_data_section = FALSE,
                   !.parsed = @ \cup {PlaneVariable(line)}]
    ELSE [p EXCEPT !.current_variable = None, !.in_data_section = FALSE]

\* The body of the loop over the lines, for a line of the kind line with cnt
\* numbers on it, read in the section sec.
LoopBody(p, line, sec, cnt) ==
    CASE line \in {"lat", "lon"} -> AxisHeader(p, line)
      [] line \in PlaneHeaders(p.kind) -> PlaneHeader(p, line)
      [] line = "time" ->
            [p EXCEPT !.current_variable = None, !.in_data_section = FALSE]
      [] line = "blank" -> p
      [] line = "indexed" ->
            LET q == [p EXCEPT !.in_data_section = TRUE] IN
            IF /\ p.current_variable # None
               /\ p.current_variable[1] \in {"ugrd", "vgrd", "prate"}
            THEN Extend(q, p.current_variable[1], ExtractNumbers(sec, cnt))
            ELSE q
      [] line = "numbers" ->
            IF p.in_data_section /\ p.current_variable # None
            THEN Extend(p, p.current_variable[1], ExtractNumbers(sec, cnt))
            ELSE p
      [] OTHER -> p

\* A safety check that looks at the axes and at the first plane only.
ParsedFirstPlaneNonEmpty(p) ==
    /\ p.lat_values # << >>
    /\ p.lon_values # << >>
    /\ IF p.kind = "wind" THEN p.u_values # << >>
       ELSE p.prate_values # << >>

\* The safety check at the end of a parser: every axis and plane of the
\* parser has a value.
ParsedNonEmpty(p) ==
    /\ p.lat_values # << >>
    /\ p.lon_values # << >>
    /\ IF p.kind = "wind" THEN p.u_values # << >> /\ p.v_values # << >>
       ELSE p.prate_values # << >>

\* A parser is called on a response.
ParseBegin(a, kind) ==
    /\ proc[a].parser.pc \in {"idle", "done"}
    /\ proc' = [proc EXCEPT ![a].parser =
                   [ParserIdle EXCEPT !.pc = "lines", !.kind = kind]]
    /\ UNCHANGED <<cacheVars, ix, status>>

\* The loop takes the next line of the response.
ParseLine(a, line, cnt) ==
    LET p == proc[a].parser IN
    /\ p.pc = "lines"
    /\ p.n < MaxLines
    /\ proc' = [proc EXCEPT ![a].parser =
                   LoopBody(Noted(p, line), line, SectionAfter(p, line), cnt)]
    /\ UNCHANGED <<cacheVars, ix, status>>

\* The response has no more lines: the parser returns the data, or fails
\* when an axis or a plane is empty.
ParseEnd(a) ==
    LET p == proc[a].parser IN
    /\ p.pc = "lines"
    /\ proc' = [proc EXCEPT ![a].parser =
                   [p EXCEPT !.pc = "done",
                             !.result = IF ParsedNonEmpty(p) THEN "ok"
                                        ELSE "err"]]
    /\ UNCHANGED <<cacheVars, ix, status>>

\* One activity parsing a response of up to MaxLines lines.
InitParse ==
    /\ kv = EmptyStore
    /\ now = 0
    /\ last = NoOp
    /\ got = NotRead
    /\ ix = NoCalls
    /\ proc = AllIdle
    /\ status = [running |-> TRUE, lastFetch |-> None]

NextParse ==
    \E a \in {"background"} :
        \/ \E kind \in ParserKinds : ParseBegin(a, kind)
        \/ \E line \in LineKinds, cnt \in 1..MaxNums : ParseLine(a, line, cnt)
        \/ ParseEnd(a)

SpecParse == InitParse /\ [][NextParse]_vars

\* ------------------------------------------- the grid parser, indexed rows

\* A line of text is the sequence of its characters. The characters of the
\* rows: brackets, the two separators, digits and the sign.
Whitespace == {" "}
Digits == {"1", "2"}

\* str::split_once(c): the text before and after the first c.
SplitOnce(s, c) ==
    LET at == {i \in 1..Len(s) : s[i] = c} IN
    IF at = {} THEN None
    ELSE LET i == CHOOSE j \in at : \A k \in at : j <= k
         IN  Some(<<SubSeq(s, 1, i - 1), SubSeq(s, i + 1, Len(s))>>)

\* str::trim_start_matches(c).
RECURSIVE TrimStartMatches(_, _)
TrimStartMatches(s, c) ==
    IF s # << >> /\ Head(s) = c THEN TrimStartMatches(Tail(s), c) ELSE s

\* str::trim(): no whitespace at either end.
RECURSIVE Trim(_)
Trim(s) ==
    IF s = << >> THEN s
    ELSE IF Head(s) \in Whitespace THEN Trim(Tail(s))
    ELSE IF s[Len(s)] \in Whitespace THEN Trim(SubSeq(s, 1, Len(s) - 1))
    ELSE s

\* str::split on ',' and whitespace: the pieces between the separators, the
\* empty ones included.
RECURSIVE Split(_)
Split(s) ==
    LET at == {i \in 1..Len(s) : s[i] = "," \/ s[i] \in Whitespace} IN
    IF at = {} THEN <<s>>
    ELSE LET i == CHOOSE j \in at : \A k \in at : j <= k
         IN  <<SubSeq(s, 1, i - 1)>> \o Split(SubSeq(s, i + 1, Len(s)))

\* The number a run of digits writes.
RECURSIVE DigitsValue(_)
DigitsValue(s) ==
    IF s = << >> THEN 0
    ELSE 10 * DigitsValue(SubSeq(s, 1, Len(s) - 1))
         + (IF s[Len(s)] = "1" THEN 1 ELSE 2)

\* str::parse::<f64>() on the characters of the rows: an optional sign and
\* at least one digit, nothing else.
ParseF64(s) ==
    LET body == IF s # << >> /\ Head(s) = "-" THEN Tail(s) ELSE s IN
    IF body # << >> /\ \A i \in 1..Len(body) : body[i] \in Digits
    THEN Some(IF body = s THEN DigitsValue(body) ELSE 0 - DigitsValue(body))
    ELSE None

\* filter_map over the pieces: the ones that parse, in their order.
RECURSIVE FilterParsed(_)
FilterParsed(pieces) ==
    IF pieces = << >> THEN << >>
    ELSE LET trimmed == Trim(Head(pieces)) IN
         (IF trimmed # << >> THEN ParseF64(trimmed) ELSE None)
         \o FilterParsed(Tail(pieces))

\* extract_numbers.
extract_numbers(text) == FilterParsed(Split(text))

\* An extraction that only takes the brackets off the index tuple.
extract_numbers_keeping_indices(line) ==
    extract_numbers([i \in 1..Len(line) |->
                        IF line[i] \in {"[", "]"} THEN " " ELSE line[i]])

\* extract_numbers_from_indexed_line: the text after the second ']', the
\* whole line when it has no second ']'.
extract_numbers_from_indexed_line(line) ==
    LET first == SplitOnce(line, "]")
        second == IF first = None THEN None
                  ELSE SplitOnce(Trim(TrimStartMatches(first[1][2], ",")),
                                 "]")
        without_prefix == IF second = None THEN line
                          ELSE Trim(TrimStartMatches(second[1][2], ","))
    IN  extract_numbers(without_prefix)

\* The rows of a response: an index tuple of one to three bracket groups,
\* then up to MaxNums numbers, each written after one of the separators.
MaxGroups == 3
RowValues == {2, 0 - 1, 12}
Separators == {<< >>, <<",">>, <<",", " ">>, <<" ">>}

RECURSIVE IndexTuple(_)
IndexTuple(groups) ==
    IF groups = 0 THEN << >>
    ELSE IndexTuple(groups - 1)
         \o <<"[", IF groups = 2 THEN "2" ELSE "1", "]">>

Written(v) ==
    CASE v = 1 -> <<"1">>
      [] v = 2 -> <<"2">>
      [] v = 0 - 1 -> <<"-", "1">>
      [] v = 12 -> <<"1", "2">>

RECURSIVE WrittenAll(_, _, _)
WrittenAll(vals, lead, sep) ==
    IF vals = << >> THEN << >>
    ELSE lead \o Written(Head(vals)) \o WrittenAll(Tail(vals), sep, sep)

\* The text of a row: the tuple, the numbers with lead before the first and
\* sep before each later one, and the end of the line.
RowText(groups, vals, lead, sep, tail) ==
    IndexTuple(groups) \o WrittenAll(vals, lead, sep) \o tail

RowVals == UNION {[1..k -> RowValues] : k \in 0..MaxNums}

\* The branch of the loop for a trimmed line that starts with '[': the data
\* section is open, and the numbers of the line go to the plane that is the
\* current variable, if one is.
IndexedRow(p, nums) ==
    LET q == [p EXCEPT !.in_data_section = TRUE] IN
    IF /\ p.current_variable # None
       /\ p.current_variable[1] \in {"ugrd", "vgrd", "prate"}
    THEN Extend(q, p.current_variable[1], nums)
    ELSE q

\* The loop takes a line that is an index-prefixed row.
ParseIndexedRow(a, groups, vals, lead, sep, tail) ==
    LET p == proc[a].parser
        trimmed == Trim(RowText(groups, vals, lead, sep, tail))
    IN  /\ p.pc = "lines"
        /\ p.n < MaxLines
        /\ Head(trimmed) = "["
        /\ proc' = [proc EXCEPT ![a].parser =
               [IndexedRow(Noted(p, "indexed"),
                           extract_numbers_from_indexed_line(trimmed))
                EXCEPT !.row = [n |-> p.n + 1, groups |-> groups,
                                vals |-> vals]]]
        /\ UNCHANGED <<cacheVars, ix, status>>

\* One activity parsing a response of up to MaxRowLines lines that are
\* headers and index-prefixed rows.
MaxRowLines == 3
HeaderLines == {"lat", "lon", "ugrd10m", "vgrd10m", "pratesfc", "time"}

NextRow ==
    \E a \in {"background"} :
        \/ \E kind \in ParserKinds : ParseBegin(a, kind)
        \/ \E line \in HeaderLines :
              proc[a].parser.n < MaxRowLines /\ ParseLine(a, line, 1)
        \/ \E groups \in 1..MaxGroups, vals \in RowVals,
              lead \in Separators, sep \in Separators \ {<< >>},
              tail \in {<< >>, <<" ">>} :
              /\ proc[a].parser.n < MaxRowLines
              /\ ParseIndexedRow(a, groups, vals, lead, sep, tail)
        \/ ParseEnd(a)

SpecRow == InitParse /\ [][NextRow]_vars

\* ------------------------------------------- grid stitcher and raster codec

\* The longest plane of a parsed half.
MaxPlane == 4

Max(a, b) == IF a >= b THEN a ELSE b

\* The axes of the halves of a response: one or two latitudes, and one or
\* two longitudes on each side of the meridian, the western ones as the
\* upstream counts them (up to 359).
GridLats == {<<10>>, <<10, 11>>}
WestLons == {<<359>>, <<358, 359>>}
EastLons == {<<0>>, <<0, 1>>}

\* A plane of len values: start, start + step, ..
Ramp(len, start, step) == [i \in 1..len |-> start + step * (i - 1)]
Steps == {1, 7}

\* What a parser can return for a half: axes that are not empty and planes
\* that are not empty, of any length up to MaxPlane.  ParsedWindData and
\* ParsedPrecipitationData; the values of the western planes start at -3
\* (u), 2 (v) and 1 (prate), those of the eastern ones at 40, -40 and 50.
ParsedHalves(kind, lons, u0, v0, p0) ==
    IF kind = "wind"
    THEN {[lat_values |-> lat, lon_values |-> lon,
           u_data |-> Ramp(ulen, u0, step), v_data |-> Ramp(vlen, v0, -step)] :
             lat \in GridLats, lon \in lons, ulen \in 1..MaxPlane,
             vlen \in 1..MaxPlane, step \in Steps}
    ELSE {[lat_values |-> lat, lon_values |-> lon,
           prate_data |-> Ramp(plen, p0, step)] :
             lat \in GridLats, lon \in lons, plen \in 1..MaxPlane,
             step \in Steps}
WestHalves(kind) == ParsedHalves(kind, WestLons, -3, 2, 1)
EastHalves(kind) == ParsedHalves(kind, EastLons, 40, -40, 50)

\* A combination that puts the whole western plane before the eastern one.
StitchPlaneInBlocks(west, east, numLats, westLonCount, eastLonCount) ==
    IF \/ numLats * westLonCount > Len(west)
       \/ numLats * eastLonCount > Len(east)
    THEN None
    ELSE Some(SubSeq(west, 1, numLats * westLonCount)
                 \o SubSeq(east, 1, numLats * eastLonCount))

\* for lat_idx in 0..num_lats: the west row, then the east row, each value
\* taken at row start + i.  An index beyond the end of a plane panics.
StitchPlane(west, east, numLats, westLonCount, eastLonCount) ==
    IF \/ numLats * westLonCount > Len(west)
       \/ numLats * eastLonCount > Len(east)
    THEN None
    ELSE Some([j \in 1..(numLats * (westLonCount + eastLonCount)) |->
                 LET lat_idx == (j - 1) \div (westLonCount + eastLonCount)
                     i == (j - 1) % (westLonCount + eastLonCount)
                 IN  IF i < westLonCount
                     THEN west[lat_idx * westLonCount + i + 1]
                     ELSE east[lat_idx * eastLonCount + (i - westLonCount)
                                  + 1]])

\* west_data.lon_values.iter().map(|lon| lon - 360.0)
WestLonsShifted(lons) == [k \in 1..Len(lons) |-> lons[k] - 360]

\* fold(f64::INFINITY, f64::min) and fold(f64::NEG_INFINITY, f64::max) over
\* a plane that is not empty.
RECURSIVE FoldMin(_)
FoldMin(s) == IF Len(s) = 1 THEN s[1] ELSE Min(s[1], FoldMin(Tail(s)))
RECURSIVE FoldMax(_)
FoldMax(s) == IF Len(s) = 1 THEN s[1] ELSE Max(s[1], FoldMax(Tail(s)))

\* f64 as u8: saturating.
AsU8(x) == Min(255, Max(0, x))

\* A normalization that rounds down.
NormalizeTruncated(x, lo, hi) ==
    IF hi = lo THEN 0 ELSE AsU8((255 * (x - lo)) \div (hi - lo))

\* ((x - lo) / (hi - lo) * 255.0).round() as u8, on integers: halves round
\* up; with hi = lo the quotient 0/0 is NaN, which the cast makes 0.
Normalize(x, lo, hi) ==
    IF hi = lo THEN 0
    ELSE AsU8((2 * 255 * (x - lo) + (hi - lo)) \div (2 * (hi - lo)))

\* convert_to_png: an image of width x height pixels, all [0, 0, 0, 0] at
\* first; pixel i of the data is put at (i % width, i / width), which
\* panics outside the image, as does v_data[i] beyond the end of v_data.
ConvertToPng(width, height, u_data, v_data, u_min, u_max, v_min, v_max) ==
    IF Len(u_data) > width * height \/ Len(v_data) < Len(u_data)
    THEN None
    ELSE Some([j \in 1..(width * height) |->
                 IF j <= Len(u_data)
                 THEN <<Normalize(u_data[j], u_min, u_max),
                        Normalize(v_data[j], v_min, v_max), 0, 255>>
                 ELSE <<0, 0, 0, 0>>])

\* A download_*_data_for_run call begins; both halves are requested, the
\* region reaching west of the meridian.
GridBegin(a, kind) ==
    /\ proc[a].grid.pc \in {"idle", "done"}
    /\ proc' = [proc EXCEPT ![a].grid =
                   [GridIdle EXCEPT !.pc = "west", !.kind = kind]]
    /\ UNCHANGED <<cacheVars, ix, status>>

\* The western response has been parsed.
WestParsed(a, data) ==
    /\ proc[a].grid.pc = "west"
    /\ proc' = [proc EXCEPT ![a].grid.pc = "east",
                            ![a].grid.west_data = data]
    /\ UNCHANGED <<cacheVars, ix, status>>

\* The eastern response has been parsed.
EastParsed(a, data) ==
    /\ proc[a].grid.pc = "east"
    /\ proc' = [proc EXCEPT ![a].grid.pc = "combine",
                            ![a].grid.east_data = data]
    /\ UNCHANGED <<cacheVars, ix, status>>

\* "Combine west and east data": the latitudes of the west, the shifted
\* western longitudes followed by the eastern ones, the planes row by row.
Combine(a) ==
    LET g == proc[a].grid
        west == g.west_data
        east == g.east_data
        num_lats == Len(west.lat_values)
        west_lon_count == Len(west.lon_values)
        east_lon_count == Len(east.lon_values)
        u == StitchPlane(west.u_data, east.u_data, num_lats, west_lon_count,
                         east_lon_count)
        v == StitchPlane(west.v_data, east.v_data, num_lats, west_lon_count,
                         east_lon_count)
        prate == StitchPlane(west.prate_data, east.prate_data, num_lats,
                             west_lon_count, east_lon_count)
        h == [g EXCEPT !.all_lat_values = west.lat_values,
                       !.all_lon_values = WestLonsShifted(west.lon_values)
                                             \o east.lon_values]
    IN
    /\ g.pc = "combine"
    /\ proc' = [proc EXCEPT ![a].grid =
          IF g.kind = "wind"
          THEN IF u = None \/ v = None
               THEN [g EXCEPT !.pc = "done", !.result = "panic"]
               ELSE [h EXCEPT !.pc = "png", !.all_u_values = u[1],
                              !.all_v_values = v[1]]
          ELSE IF prate = None
               THEN [g EXCEPT !.pc = "done", !.result = "panic"]
               ELSE [h EXCEPT !.pc = "points", !.all_prate_values = prate[1]]]
    /\ UNCHANGED <<cacheVars, ix, status>>

\* "Calculate min/max" and "Convert to PNG".
EncodePng(a) ==
    LET g == proc[a].grid
        img == ConvertToPng(Len(g.all_lon_values), Len(g.all_lat_values),
                            g.all_u_values, g.all_v_values,
                            FoldMin(g.all_u_values), FoldMax(g.all_u_values),
                            FoldMin(g.all_v_values), FoldMax(g.all_v_values))
    IN
    /\ g.pc = "png"
    /\ proc' = [proc EXCEPT ![a].grid =
          IF img = None THEN [g EXCEPT !.pc = "done", !.result = "panic"]
          ELSE [g EXCEPT !.pc = "points", !.png = img[1]]]
    /\ UNCHANGED <<cacheVars, ix, status>>

\* "Create wind points" / "Create precipitation points": one point per
\* latitude and longitude, with the values at y * width + x; the call
\* returns.
BuildPoints(a) ==
    LET g == proc[a].grid
        width == Len(g.all_lon_values)
        height == Len(g.all_lat_values)
        plane == IF g.kind = "wind" THEN g.all_u_values
                 ELSE g.all_prate_values
    IN
    /\ g.pc = "points"
    /\ proc' = [proc EXCEPT ![a].grid =
          IF width * height > Len(plane)
          THEN [g EXCEPT !.pc = "done", !.result = "panic"]
          ELSE [g EXCEPT !.pc = "done", !.result = "ok",
                   !.points =
                      [j \in 1..(width * height) |->
                          LET y == (j - 1) \div width
                              x == (j - 1) % width
                          IN  IF g.kind = "wind"
                              THEN <<g.all_lat_values[y + 1],
                                     g.all_lon_values[x + 1],
                                     g.all_u_values[j], g.all_v_values[j]>>
                              ELSE <<g.all_lat_values[y + 1],
                                     g.all_lon_values[x + 1],
                                     g.all_prate_values[j] * 3600>>]]]
    /\ UNCHANGED <<cacheVars, ix, status>>

\* One activity combining and encoding the halves of a response.
InitGrid ==
    /\ kv = EmptyStore
    /\ now = 0
    /\ last = NoOp
    /\ got = NotRead
    /\ ix = NoCalls
    /\ proc = AllIdle
    /\ status = [running |-> TRUE, lastFetch |-> None]

NextGrid ==
    \E a \in {"background"} :
        \/ \E kind \in ParserKinds : GridBegin(a, kind)
        \/ \E data \in WestHalves(proc[a].grid.kind) : WestParsed(a, data)
        \/ \E data \in EastHalves(proc[a].grid.kind) : EastParsed(a, data)
        \/ Combine(a)
        \/ EncodePng(a)
        \/ BuildPoints(a)

SpecGrid == InitGrid /\ [][NextGrid]_vars

\* ===================================================================== claims

\* The entries of the index list of BaseKey.
Entries == Indices(kv, BaseKey)

\* The call that has just ended is a successful setIndexed.
IndexedDone == last.op = "setIndexed" /\ last.res = "ok"

\* The positions of last.pre whose data time is strictly less than the
\* tolerance away from the data time of the value just written.
PreMatches ==
    {i \in 1..Len(last.pre) :
        /\ last.arg[1].meta.dt # None
        /\ last.pre[i].dt # None
        /\ Abs(last.arg[1].meta.dt[1] - last.pre[i].dt[1]) < TOLERANCE}

\* C1: after any sequence of setIndexed calls on one base key, no two entries
\* of the index list have data times less than the tolerance (2 hours) apart.
C1_NoDuplicateForecastTime ==
    \A i, j \in 1..Len(Entries) :
        (i < j /\ Entries[i].dt # None /\ Entries[j].dt # None)
            => Abs(Entries[i].dt[1] - Entries[j].dt[1]) >= TOLERANCE

\* C2: a setIndexed whose data time is strictly within the tolerance of an
\* existing entry returns the index of such an entry, leaves the length of the
\* list and current_index as they were; a setIndexed with no entry within the
\* tolerance appends an entry carrying the previous current_index, returns
\* it, and advances current_index by exactly 1.
C2_UpdateOrAppend ==
    IndexedDone =>
        IF PreMatches # {}
        THEN /\ \E i \in PreMatches : last.idx = Some(last.pre[i].index)
             /\ Len(Entries) = Len(last.pre)
             /\ CurrentIndex(kv, BaseKey) = last.preCur
        ELSE /\ last.idx = Some(last.preCur)
             /\ Len(Entries) > 0
             /\ Entries[Len(Entries)].index = last.preCur
             /\ Entries[Len(Entries)].dt = last.arg[1].meta.dt
             /\ Len(Entries) = Min(Len(last.pre) + 1, MaxHistory)
             /\ CurrentIndex(kv, BaseKey) = last.preCur + 1

\* C2's case, on the update path: with two entries listed, a value within the
\* tolerance of the second one was written and the index 1 came back.
C2_Witness ==
    /\ IndexedDone
    /\ Len(last.pre) = 2
    /\ PreMatches = {2}
    /\ last.idx = Some(1)

\* How many entries the call that has just ended had to drop.
Dropped ==
    LET n == IF PreMatches # {} THEN Len(last.pre) ELSE Len(last.pre) + 1
    IN  IF n > MaxHistory THEN n - MaxHistory ELSE 0

\* C3: after a completed setIndexed the list has at most maxHistory entries;
\* when the insertion made it longer, exactly the first n - maxHistory
\* entries in list order are gone, the others keep their order, and reading
\* base:i for each removed index i returns no value.
C3_EvictionRemovesOldest ==
    IndexedDone =>
        /\ Len(Entries) <= MaxHistory
        /\ Len(Entries) =
             (IF PreMatches # {} THEN Len(last.pre) ELSE Len(last.pre) + 1)
             - Dropped
        /\ \A j \in 1..Len(Entries) :
             j + Dropped <= Len(last.pre)
                => Entries[j].index = last.pre[j + Dropped].index
        /\ \A k \in 1..Dropped :
             GetWindDataByIndex(kv, BaseKey, last.pre[k].index) = None

\* C4: current_index (0 when absent) is the next unused integer: greater than
\* the index of every listed entry, the listed indices increasing in list
\* order.
C4_CurrentIndexIsNextUnused ==
    /\ \A i \in 1..Len(Entries) :
         Entries[i].index < CurrentIndex(kv, BaseKey)
    /\ \A i, j \in 1..Len(Entries) :
         i < j => Entries[i].index < Entries[j].index

\* The call that has just ended is a successful setValue of data.
ValueDone == last.op = "set" /\ last.res = "ok"

\* C5: a getValue that follows a setValue returns exactly the value of that
\* setValue, whatever was written under the key before.
C5_ReadReturnsLastWrite ==
    (ValueDone /\ got.done) => got.out = last.arg

\* An over-ceiling value the write path can chunk: a non-empty bare list, or
\* an object with a non-empty points list.
OversizedChunkable(v) ==
    /\ JsonSize(v) > MAX_SIZE
    /\ v.kind = "array" \/ (v.kind = "object" /\ v.hp)
    /\ Len(v.pts) > 0

\* C6: after setValue of an over-ceiling list or object with points on a
\* fresh key, key:chunks and key:chunk:0 .. key:chunk:(count-1) exist and
\* getValue returns the same value: the same points in the same order and,
\* for an object, the same other fields.
C6_FreshOversizedRoundTrip ==
    (last.op = "set" /\ last.fresh /\ OversizedChunkable(last.arg[1])) =>
        /\ last.res = "ok"
        /\ Has(kv, ChunksKey(ValueKey))
        /\ \A i \in 0..(kv[ChunksKey(ValueKey)].v.num - 1) :
              Has(kv, ChunkKey(ValueKey, i))
        /\ GetWindData(kv, ValueKey) = last.arg
        /\ got.done => got.out = last.arg

\* C6's case: an object with MaxLen points went to a fresh key in at least
\* two chunks, the last one shorter, and was read back.
C6_Witness ==
    /\ last.op = "set" /\ last.fresh /\ got.done
    /\ last.arg[1].kind = "object"
    /\ Len(last.arg[1].pts) = MaxLen
    /\ OversizedChunkable(last.arg[1])
    /\ Has(kv, ChunksKey(ValueKey))
    /\ kv[ChunksKey(ValueKey)].v.num >= 2
    /\ Len(kv[ChunkKey(ValueKey, kv[ChunksKey(ValueKey)].v.num - 1)].v.pts)
          < Len(kv[ChunkKey(ValueKey, 0)].v.pts)

\* C7: every value a successful setValue leaves under a physical key (the
\* plain key, key:meta, key:chunk:i) serializes to at most the ceiling.
C7_StoredValuesFit ==
    ValueDone => \A k \in DOMAIN kv : JsonSize(kv[k].v) <= MAX_SIZE

\* An over-ceiling value that is neither a bare list nor an object with a
\* list-valued points field.
NotChunkable(v) ==
    /\ JsonSize(v) > MAX_SIZE
    /\ v.kind # "array"
    /\ ~(v.kind = "object" /\ v.hp)

\* C8: a setValue of an over-ceiling value that cannot be chunked fails with
\* the not-chunkable error and leaves the cache as it was.
C8_NotChunkableWritesNothing ==
    [][(last'.op = "set" /\ NotChunkable(last'.arg[1]))
          => (last'.res = "too_large" /\ kv' = kv)]_vars

\* C8's case: such a setValue has failed on a store that holds a value.
C8_Witness ==
    /\ last.op = "set"
    /\ NotChunkable(last.arg[1])
    /\ last.res = "too_large"
    /\ kv # EmptyStore

\* Both callers have completed a call on the create-new-entry path.
BothCreated ==
    \A c \in Callers : ix[c].pc = "done" /\ ix[c].existing = None

\* The positions of the final list that carry index i.
ListedAt(i) == {k \in 1..Len(Entries) : Entries[k].index = i}

\* C10: the index read-modify-write is not transactional.  Two concurrent
\* setIndexed calls on the create path that read the same current_index
\* return the same index, the key base:index holds the value of only one of
\* them, and when both also read the same list, the final list holds a single
\* entry for that index: the entry of the other call is lost.
C10_CreateCollision ==
    (BothCreated /\ ix["a"].cur = ix["b"].cur) =>
        /\ ix["a"].ret = ix["b"].ret
        /\ GetWindDataByIndex(kv, BaseKey, ix["a"].ret[1])
              \in {ix["a"].data, ix["b"].data}
        /\ ix["a"].indices = ix["b"].indices
              => Cardinality(ListedAt(ix["a"].ret[1])) = 1

\* C10's case: two calls with different data times, both creating, have read
\* the same current_index, returned the same index, and the final list lacks
\* the entry of one of them while base:index holds the value of the other.
C10_Witness ==
    /\ BothCreated
    /\ ix["a"].data[1].meta.dt # None
    /\ ix["b"].data[1].meta.dt # None
    /\ ix["a"].data # ix["b"].data
    /\ ix["a"].cur = ix["b"].cur
    /\ ix["a"].ret = ix["b"].ret
    /\ \E c \in Callers :
          /\ \A k \in 1..Len(Entries) : Entries[k].dt # ix[c].data[1].meta.dt
          /\ GetWindDataByIndex(kv, BaseKey, ix[c].ret[1]) # ix[c].data

\* Some entry of the list ents has a data time less than the tolerance away
\* from the data time t.
HasWithin(ents, t) ==
    \E k \in 1..Len(ents) :
        ents[k].dt # None /\ Abs(t - ents[k].dt[1]) < TOLERANCE

\* The cycle of activity a has passed its dedup check and not yet returned.
PastCheck(a) ==
    proc[a].pc \in {"send_wind", "wind_wait", "store_wind", "send_precip",
                    "precip_wait", "store_precip"}

\* C9, as claimed: at the moment a cycle sends its upstream wind request, the
\* wind index list holds no entry within the tolerance of the target's data
\* time, whatever the other activity has done meanwhile.
C9_NoRequestForDataHeld ==
    [][\A a \in Activities :
          (proc[a].pc = "send_wind" /\ proc'[a].pc = "wind_wait")
             => ~HasWithin(Indices(kv, WIND_POINTS_KEY), proc[a].dataTime)]_vars

\* What the dedup check does give: a cycle sends its upstream requests only
\* after the check, and the index list that check read held no entry within
\* the tolerance of the target's data time.
RequestOnlyAfterClearCheck ==
    \A a \in Activities :
        PastCheck(a) => ~HasWithin(proc[a].existing, proc[a].dataTime)

\* A wind request is in flight for a target whose dedup check read a list
\* that holds an entry, none within the tolerance.
RequestAfterClearCheck ==
    \E a \in Activities :
        /\ proc[a].pc = "wind_wait"
        /\ Len(proc[a].existing) > 0
        /\ ~HasWithin(proc[a].existing, proc[a].dataTime)

\* The activity a has an upstream request in flight in the state with the
\* activities' records pr.
InFlight(pr, a) == pr[a].pc \in {"wind_wait", "precip_wait"}

\* C11, as claimed: at most one upstream request is in flight at any time,
\* over the recurring job and the manual trigger handlers together, and a
\* full-history fetch moves to its next target only from the sleep that
\* follows the previous target's cycle.
C11_OneUpstreamRequestAtATime ==
    [][/\ Cardinality({a \in Activities : InFlight(proc', a)}) <= 1
       /\ \A a \in Activities :
             (proc[a].ti > 0 /\ proc'[a].ti = proc[a].ti + 1)
                => (proc[a].pc = "sleep" /\ proc'[a].pc = "cycle")]_vars

\* The three wind writes of a cycle, in the order the cycle makes them.
AllWindWrites == <<"points", "png", "metadata">>

\* The wind index list holds an entry with the index i.
WindListed(i) ==
    \E k \in 1..Len(Indices(kv, WIND_POINTS_KEY)) :
        Indices(kv, WIND_POINTS_KEY)[k].index = i

\* C12: a cycle sends its precipitation request only when the wind points,
\* the image and the metadata writes of that same cycle have all completed
\* (the entry is listed, the image and the metadata are stored under its
\* index); so a cycle whose wind download or whose wind write failed sends
\* none.
C12_WindWrittenBeforePrecipitation ==
    [][\A a \in Activities :
          Len(proc'[a].precipFor) > Len(proc[a].precipFor)
             => /\ proc[a].pc = "send_precip"
                /\ proc[a].wrote = AllWindWrites
                /\ WindListed(proc[a].index)
                /\ Has(kv, IndexedKey(WIND_PNG_KEY, proc[a].index))
                /\ Has(kv, IndexedKey(WIND_METADATA_KEY, proc[a].index))]_vars

\* C12's case: a precipitation request is in flight in a cycle that has made
\* its three wind writes, in a fetch that had a wind failure before.
C12_Witness ==
    \E a \in Activities :
        /\ proc[a].pc = "precip_wait"
        /\ proc[a].wrote = AllWindWrites
        /\ proc[a].failed > 0
        /\ WindListed(proc[a].index)

\* In this step the activity a leaves the precipitation step of its cycle
\* with nothing written by it: the download or the write has failed.
PrecipitationFails(a) ==
    /\ proc[a].pc \in {"precip_wait", "store_precip"}
    /\ proc'[a].pc \notin {"precip_wait", "store_precip"}
    /\ kv' = kv

\* C13, as claimed: when the precipitation step of a cycle fails, the cycle
\* still returns success (Ok(true) to the caller of a latest-only fetch, one
\* more success counted by a full-history fetch, which goes on with its sleep
\* and next target), and the wind entry the cycle wrote is still listed.
C13_PrecipitationFailureKeepsSuccess ==
    [][\A a \in Activities :
          PrecipitationFails(a)
             => /\ WindListed(proc[a].index)
                /\ IF proc[a].mode = "latest"
                   THEN proc'[a].pc = "idle" /\ proc'[a].ret = "ok_true"
                   ELSE /\ proc'[a].pc = "sleep"
                        /\ proc'[a].ok = proc[a].ok + 1
                        /\ proc'[a].failed = proc[a].failed]_vars

\* The answer of post_wind_refresh and post_wind_refresh_latest to what the
\* fetch returned.
TriggerResponse(ret) ==
    [code |-> IF ret = "err" THEN 500 ELSE 200, success |-> ret = "ok_true"]

\* C17, as claimed: a manual fetch that failed entirely, and on upstream
\* failures only, is answered 200 with success = false; an answer 500 is
\* given only after a cache failure.
C17_UpstreamFailureAnswers200 ==
    LET p == proc["manual"] IN
    p.ret # "none"
       => /\ (p.ret # "ok_true" /\ p.faults = {"upstream"})
                => TriggerResponse(p.ret) = [code |-> 200, success |-> FALSE]
          /\ TriggerResponse(p.ret).code = 500 => "cache" \in p.faults

\* C18, as claimed: when a fetch returns Err to its caller after a cache
\* failure, lastFetch is then present with success = false.
C18_CacheErrorLeavesFailedStatus ==
    [][\A a \in Activities :
          (/\ proc'[a] # proc[a]
           /\ proc'[a].pc = "idle"
           /\ proc'[a].ret = "err"
           /\ "cache" \in proc'[a].faults)
             => /\ status'.lastFetch # None
                /\ ~status'.lastFetch[1].success]_vars

\* The startup fetch has gone through its targets and is about to write its
\* summary.
StartupFetchDone ==
    proc["background"].mode = "startup" /\ proc["background"].pc = "summary"

\* The data times of the wind index list.
WindDataTimes ==
    [k \in 1..Len(Indices(kv, WIND_POINTS_KEY)) |->
        DataTimeOrZero(Indices(kv, WIND_POINTS_KEY)[k])]

\* The listed wind entries all carry a data time, and any two of them are a
\* positive multiple of 3 hours apart.
ThreeHoursApart ==
    /\ \A k \in 1..Len(WindDataTimes) :
          Indices(kv, WIND_POINTS_KEY)[k].dt # None
    /\ \A j, k \in 1..Len(WindDataTimes) :
          j # k => /\ Abs(WindDataTimes[j] - WindDataTimes[k]) >= 3 * Hour
                   /\ Abs(WindDataTimes[j] - WindDataTimes[k]) % (3 * Hour) = 0

C19_StartupOrdering ==
    /\ status = SchedulerStatusDefault
    /\ [][LET b == proc["background"]
              c == proc'["background"]
          IN  /\ status.running => status'.running
              /\ (b.mode = "none" /\ c.mode # "none")
                    => (status.running /\ (b.pc = "idle" \/ c.mode = "startup"))
              /\ (b.pc # "idle" /\ c.pc = "idle")
                    => \/ b.mode = "latest"
                       \/ /\ b.mode = "startup"
                          /\ b.pc = "summary"
                          /\ c.ret \in {"ok_true", "ok_false", "err"}
              /\ (b.mode # "latest" /\ c.mode = "latest") => b.pc = "idle"
              /\ (proc["manual"].pc = "down" /\ proc'["manual"].pc # "down")
                    => (b.mode = "startup" /\ c.pc = "idle")]_vars

\* C19's case: the recurring activity is in a latest-only fetch after a
\* startup fetch that returned Err: running is set, lastFetch is absent.
C19_Witness ==
    /\ proc["background"].mode = "latest"
    /\ proc["background"].pc = "wind_wait"
    /\ status.running
    /\ status.lastFetch = None

\* The download of the one activity that downloads.
Download == proc["background"].dl

\* C14: the runs requested so far are the first candidates of the run
\* selector's list, in its order; every one but the last requested has
\* failed, so a run is requested only after all earlier ones failed and none
\* is requested after a success; a download that has returned data returns
\* the data of the last run requested, the first that succeeded.
C14_CandidatesInOrderUntilSuccess ==
    LET d == Download IN
    /\ Len(d.tried) <= Len(d.runs)
    /\ \A k \in 1..Len(d.tried) : d.tried[k].run = d.runs[k]
    /\ \A k \in 1..(Len(d.tried) - 1) : d.tried[k].outcome = "err"
    /\ d.pc = "ok"
          => /\ d.tried[Len(d.tried)].outcome = "ok"
             /\ d.result = Some(d.runs[Len(d.tried)])

\* C14's case: a download has returned the data of a candidate that is
\* neither the first nor the last of the list.
C14_Witness ==
    /\ Download.pc = "ok"
    /\ Len(Download.tried) >= 2
    /\ Len(Download.tried) < Len(Download.runs)

Ready(r) == 2 * r.hours_waited >= 11 * Hour

\* C20: in the current mode, at every instant, the candidates have pairwise
\* distinct (date, hour), no candidate that is not ready precedes a ready
\* one, and candidates of the same readiness are in descending order of run
\* time.
C20_ReadyFirstNewestFirst ==
    LET r == Download.runs IN
    (Download.pc # "idle" /\ Download.runAge = 0)
       => \A j, k \in 1..Len(r) :
             j < k => /\ <<r[j].date, r[j].hour>> # <<r[k].date, r[k].hour>>
                      /\ ~(~Ready(r[j]) /\ Ready(r[k]))
                      /\ Ready(r[j]) = Ready(r[k])
                            => r[j].full_date > r[k].full_date

\* C20's case: a candidate list of the current mode whose newest run is not
\* ready and comes last, after the ready ones.
C20_Witness ==
    LET r == Download.runs IN
    /\ Download.pc # "idle"
    /\ Download.runAge = 0
    /\ Len(r) > 1
    /\ ~Ready(r[Len(r)])
    /\ Ready(r[1])
    /\ \A k \in 1..Len(r) : r[k].full_date <= r[Len(r)].full_date

\* The run ages the historical mode is checked for, in hours.
MaxRunAge == 30

\* The hours of the day at which a run starts.
SynopticHours == {0, 6, 12, 18}

\* The candidate list r is the historical one for the run age runAge at the
\* time t: three candidates; the first starts at a synoptic hour, at or
\* before t - runAge hours and less than 6 hours before it; the second
\* starts 6 hours before the first and the third 6 hours after it; every
\* candidate's date and hour are those of its start, at a synoptic hour.
HistoricalCandidates(r, t, runAge) ==
    /\ Len(r) = 3
    /\ r[1].full_date <= t - runAge * Hour
    /\ t - runAge * Hour < r[1].full_date + 6 * Hour
    /\ r[2].full_date = r[1].full_date - 6 * Hour
    /\ r[3].full_date = r[1].full_date + 6 * Hour
    /\ \A k \in 1..3 :
          /\ r[k].hour \in SynopticHours
          /\ r[k].date * DayTicks + r[k].hour * Hour = r[k].full_date
          /\ r[k].hours_waited = t - r[k].full_date

\* C21: in the historical mode, at every instant and for every run age above
\* 0, the run selector returns exactly 3 candidates in the order primary,
\* primary - 6h, primary + 6h, the primary being the time run age hours ago
\* snapped down to a synoptic hour and every candidate's hour being 00, 06,
\* 12 or 18; a download in the historical mode works on that list.
C21_HistoricalThreeCandidates ==
    /\ \A runAge \in 1..MaxRunAge :
          HistoricalCandidates(GetHistoricalForecastRun(now, runAge), now,
                               runAge)
    /\ (Download.pc # "idle" /\ Download.runAge > 0)
          => HistoricalCandidates(Download.runs, now, Download.runAge)

\* C21's case: a download in the historical mode has taken its candidates at
\* a time that is not on the hour, the third of them a run that is not
\* ready, listed after two that are.
C21_Witness ==
    /\ Download.pc = "loop"
    /\ Download.runAge > 0
    /\ now % Hour # 0
    /\ Len(Download.runs) = 3
    /\ ~Ready(Download.runs[3])
    /\ Ready(Download.runs[1])

\* The parser of the one activity that parses.
Parser == proc["background"].parser

\* C22: every grid a parser returns has, for each of its planes, as many
\* values as the product of the lengths of its latitude and longitude axes;
\* a response whose plane has another length is rejected.
C22_ParsedPlanesMatchAxes ==
    LET p == Parser
        cells == Len(p.lat_values) * Len(p.lon_values)
    IN  p.result = "ok"
           => IF p.kind = "wind"
              THEN Len(p.u_values) = cells /\ Len(p.v_values) = cells
              ELSE Len(p.prate_values) = cells

\* The values a parser has collected, axes and planes.
Collected(p) ==
    {p.lat_values[k] : k \in 1..Len(p.lat_values)}
       \cup {p.lon_values[k] : k \in 1..Len(p.lon_values)}
       \cup {p.u_values[k] : k \in 1..Len(p.u_values)}
       \cup {p.v_values[k] : k \in 1..Len(p.v_values)}
       \cup {p.prate_values[k] : k \in 1..Len(p.prate_values)}

\* C30: whatever the lines read so far, every value of the latitude axis was
\* read under the first latitude header and every value of the longitude
\* axis under the first longitude header; no axis and no plane holds a value
\* read under a later latitude or longitude header or in the time section;
\* and a blank line read next changes nothing of what the parser holds.
C30_OnlyFirstAxisHeadersCount ==
    LET p == Parser IN
    /\ \A k \in 1..Len(p.lat_values) : p.lat_values[k] = "lat"
    /\ \A k \in 1..Len(p.lon_values) : p.lon_values[k] = "lon"
    /\ Collected(p) \cap {"lat_again", "lon_again", "time"} = {}
    /\ \A cnt \in 1..MaxNums :
          LoopBody(p, "blank", SectionAfter(p, "blank"), cnt) = p

\* C30's case: a parser has returned a grid for a response that had values
\* under a second latitude header and values in the time section.
C30_Witness ==
    /\ Parser.result = "ok"
    /\ {"lat_again", "time"} \subseteq Parser.offered
    /\ Len(Parser.lat_values) > 0

\* The call that has just ended is a setValue of an over-ceiling bare list or
\* of an over-ceiling object with a points list, of any length.
OversizedWithList ==
    /\ last.op = "set"
    /\ JsonSize(last.arg[1]) > MAX_SIZE
    /\ last.arg[1].kind = "array"
          \/ (last.arg[1].kind = "object" /\ last.arg[1].hp)

\* The chunks under the key, in order, as far as they are present.
ChunkLens ==
    [i \in 1..kv[ChunksKey(ValueKey)].v.num |->
        IF Has(kv, ChunkKey(ValueKey, i - 1))
        THEN Len(kv[ChunkKey(ValueKey, i - 1)].v.pts) ELSE 0]

\* C29: a setValue of an over-ceiling list, or object with a points list, of
\* serialized size s does not fault, whatever the number of elements; the
\* number stored at key:chunks is ceil(s / ceiling); on a fresh key that
\* many key:chunk:i keys are written; and the chunks have the same number of
\* elements, the last one possibly fewer.
C29_ChunkCountIsCeiling ==
    OversizedWithList =>
        /\ last.res = "ok"
        /\ Has(kv, ChunksKey(ValueKey))
        /\ kv[ChunksKey(ValueKey)].v.num
              = CeilDiv(JsonSize(last.arg[1]), MAX_SIZE)
        /\ last.fresh =>
              Cardinality({k \in DOMAIN kv : k.p = "chunk"})
                 = kv[ChunksKey(ValueKey)].v.num
        /\ \A i \in 1..(Len(ChunkLens) - 1) :
              /\ ChunkLens[i] = ChunkLens[1]
              /\ ChunkLens[Len(ChunkLens)] <= ChunkLens[1]

\* The number of times e occurs in the list l.
Occurrences(l, e) == Cardinality({k \in 1..Len(l) : l[k] = e})

\* The timestamp an entry is ordered by: its data time, zero without one.
TimestampOrZero(e) == IF e.dt = None THEN 0 ELSE e.dt[1]

\* C24: listIndices returns the entries of baseKey:indices, each as many
\* times as the key holds it and no other, in descending order of data
\* timestamp, an entry without one ordered as if its timestamp were zero;
\* it returns the empty list when the key is absent.
C24_ListIsStoredEntriesNewestFirst ==
    got.done =>
        LET out == got.out[1]
            stored == Indices(kv, BaseKey)
        IN  /\ Len(out) = Len(stored)
            /\ \A k \in 1..Len(stored) :
                  Occurrences(out, stored[k]) = Occurrences(stored, stored[k])
            /\ \A j, k \in 1..Len(out) :
                  j < k => TimestampOrZero(out[j]) >= TimestampOrZero(out[k])
            /\ ~Has(kv, IndicesKey(BaseKey)) => out = << >>

\* C24's case: a list of three entries, stored oldest first with an entry
\* without data time before the others, has been read.
C24_Witness ==
    /\ got.done
    /\ Len(Indices(kv, BaseKey)) = 3
    /\ Indices(kv, BaseKey)[1].dt = None
    /\ TimestampOrZero(Indices(kv, BaseKey)[2])
          < TimestampOrZero(Indices(kv, BaseKey)[3])
    /\ got.out[1] # Indices(kv, BaseKey)

\* C25: after a successful setIndexed of a value that returns the index i,
\* a read of baseKey:i and a read of the plain baseKey both return that
\* value, and baseKey:indices has an entry with the index i, which carries
\* the value's data timestamp, run name and number of points.
C25_IndexedAndLatestHoldValue ==
    (last.op = "setIndexed" /\ last.res = "ok") =>
        LET value == last.arg[1]
            i == last.idx[1]
            ents == Indices(kv, BaseKey)
        IN  /\ GetWindDataByIndex(kv, BaseKey, i) = Some(value)
            /\ GetWindData(kv, BaseKey) = Some(value)
            /\ \E k \in 1..Len(ents) : ents[k].index = i
            /\ \A k \in 1..Len(ents) :
                  ents[k].index = i
                     => /\ ents[k].dt = value.meta.dt
                        /\ ents[k].rn = value.meta.rn
                        /\ ents[k].n = Len(value.pts)

\* The offset a run age gives for hoursBack is one the upstream has: not
\* negative, a multiple of 3, at most 24.
ValidOffset(runAge, hoursBack) ==
    /\ runAge - hoursBack >= 0
    /\ (runAge - hoursBack) % 3 = 0
    /\ runAge - hoursBack <= 24

\* C27: the full-history target computation returns 8 targets, the k-th for
\* hoursBack = 3 (k - 1), that is 0, 3, .. 21 in that order; the run age of
\* each is the smallest of 6, 12, 18, 24 whose offset runAge - hoursBack is
\* not negative, a multiple of 3 and at most 24, and run age minus offset is
\* the hoursBack of the target; the fetch at startup works on these targets
\* in that order.
C27_EightTargetsSmallestRunAge ==
    LET targets == CalculateHistoricalForecastTargets
        p == proc["background"]
    IN  /\ Len(targets) = 8
        /\ \A k \in 1..Len(targets) :
              LET hoursBack == 3 * (k - 1) IN
              /\ targets[k].run_age \in {6, 12, 18, 24}
              /\ targets[k].offset = targets[k].run_age - hoursBack
              /\ ValidOffset(targets[k].run_age, hoursBack)
              /\ \A r \in {6, 12, 18, 24} :
                    r < targets[k].run_age => ~ValidOffset(r, hoursBack)
              /\ targets[k].run_age - targets[k].offset = hoursBack
        /\ (p.mode = "startup" /\ p.ti \in 1..8 /\ p.pc # "summary")
              => /\ p.runAge - p.offset = 3 * (p.ti - 1)
                 /\ \A r \in {6, 12, 18, 24} :
                       r < p.runAge => ~ValidOffset(r, 3 * (p.ti - 1))

\* C27's case: the fetch at startup has sent the wind request of its eighth
\* target, 21 hours back, taken from the run 24 hours old at offset 3.
C27_Witness ==
    /\ proc["background"].mode = "startup"
    /\ proc["background"].ti = 8
    /\ proc["background"].pc = "wind_wait"
    /\ proc["background"].runAge = 24
    /\ proc["background"].offset = 3
    /\ Len(proc["background"].windFor) = 8

\* The index list under the key k lists the run with the name runName at the
\* forecast offset 0.
ListsRunAtOffsetZero(k, runName) ==
    \E e \in 1..Len(Indices(kv, k)) :
        /\ Indices(kv, k)[e].rn = Some(runName)
        /\ Indices(kv, k)[e].fo = Some(0)

\* C28: a latest-only fetch that finds the current run listed at offset 0 in
\* the wind index list returns without an upstream request and without a
\* write; otherwise it starts the fetch-and-store cycle for run age 0 and
\* offset 0, and that cycle is its only one: it sends at most one wind and
\* one precipitation request, both for that target, and the fetch returns
\* when the cycle ends.
C28_LatestSkipsOrFetchesOnce ==
    [][LET p == proc["background"]
           q == proc'["background"]
       IN  /\ (p.pc = "idle" /\ q # p)
                 => IF ListsRunAtOffsetZero(WIND_POINTS_KEY,
                                            CalculateRunName(now, 0))
                    THEN /\ q.pc = "idle"
                         /\ q.ret = "ok_true"
                         /\ q.windFor = << >>
                         /\ q.precipFor = << >>
                         /\ kv' = kv
                    ELSE /\ q.pc = "cycle"
                         /\ q.mode = "latest"
                         /\ q.runAge = 0
                         /\ q.offset = 0
           /\ q.mode = "latest"
                 => /\ q.runAge = 0
                    /\ q.offset = 0
                    /\ q.windFor \in {<< >>, <<0>>}
                    /\ q.precipFor \in {<< >>, <<0>>}
           /\ (p.mode = "latest" /\ q.mode # "latest") => q.pc = "idle"
      ]_vars

\* C28's case: a latest-only fetch has stored the wind data of the current
\* run while its precipitation download failed, and the next latest-only
\* fetch has found the run listed and returned at once: the fetch has
\* returned without a failure and the run is still not in the
\* precipitation list.
C28_Witness ==
    /\ proc["background"].pc = "idle"
    /\ proc["background"].ret = "ok_true"
    /\ proc["background"].faults = {}
    /\ ListsRunAtOffsetZero(WIND_POINTS_KEY, CalculateRunName(now, 0))
    /\ ~ListsRunAtOffsetZero(PRECIPITATION_POINTS_KEY,
                             CalculateRunName(now, 0))

\* The grid call of the one activity that combines halves.
Grid == proc["background"].grid

\* Row y (from 0) of a plane of rows of w values.
Row(plane, y, w) == SubSeq(plane, y * w + 1, (y + 1) * w)

\* The planes of a half and of the combined grid, in the same order.
HalfPlanes(kind, half) ==
    IF kind = "wind" THEN <<half.u_data, half.v_data>>
    ELSE <<half.prate_data>>
CombinedPlanes(g) ==
    IF g.kind = "wind" THEN <<g.all_u_values, g.all_v_values>>
    ELSE <<g.all_prate_values>>

\* C23: for a west half of width w1 and an east half of width w2 with the
\* same latitude axis, the combined grid has width w1 + w2 and the height of
\* the halves, its longitudes are the western ones minus 360 followed by the
\* eastern ones, and row y of each of its planes is row y of the west
\* followed by row y of the east; halves whose planes have a value for
\* every latitude and longitude are always combined.
C23_StitchedRowsAreWestThenEast ==
    LET g == Grid
        west == g.west_data
        east == g.east_data
        w1 == Len(west.lon_values)
        w2 == Len(east.lon_values)
        h == Len(west.lat_values)
    IN  (g.pc \in {"png", "points", "done"}
           /\ east.lat_values = west.lat_values)
        => /\ g.result # "panic" =>
                 /\ Len(g.all_lon_values) = w1 + w2
                 /\ g.all_lat_values = west.lat_values
                 /\ \A x \in 1..(w1 + w2) :
                       g.all_lon_values[x]
                          = IF x <= w1 THEN west.lon_values[x] - 360
                            ELSE east.lon_values[x - w1]
                 /\ \A n \in 1..Len(CombinedPlanes(g)) :
                       /\ Len(CombinedPlanes(g)[n]) = h * (w1 + w2)
                       /\ \A y \in 0..(h - 1) :
                             Row(CombinedPlanes(g)[n], y, w1 + w2)
                                = Row(HalfPlanes(g.kind, west)[n], y, w1)
                                     \o Row(HalfPlanes(g.kind, east)[n], y, w2)
           /\ g.result = "panic" =>
                 \/ \E n \in 1..Len(HalfPlanes(g.kind, west)) :
                       Len(HalfPlanes(g.kind, west)[n]) < h * w1
                 \/ \E n \in 1..Len(HalfPlanes(g.kind, east)) :
                       Len(HalfPlanes(g.kind, east)[n]) < h * w2

\* C23's case: two wind halves of two latitudes, the west two longitudes
\* wide and the east one, with planes of distinct values, have been
\* combined.
C23_Witness ==
    /\ Grid.pc = "done"
    /\ Grid.result = "ok"
    /\ Grid.kind = "wind"
    /\ Len(Grid.west_data.lat_values) = 2
    /\ Grid.east_data.lat_values = Grid.west_data.lat_values
    /\ Len(Grid.west_data.lon_values) = 2
    /\ Len(Grid.east_data.lon_values) = 1
    /\ Grid.all_u_values[1] # Grid.all_u_values[2]
    /\ Len(Grid.all_u_values) = 6

\* The least and the greatest value of a plane.
Least(plane) ==
    CHOOSE m \in {plane[k] : k \in 1..Len(plane)} :
        \A k \in 1..Len(plane) : m <= plane[k]
Greatest(plane) ==
    CHOOSE m \in {plane[k] : k \in 1..Len(plane)} :
        \A k \in 1..Len(plane) : m >= plane[k]

\* c is 255 (x - lo) / (hi - lo) rounded to the nearest integer, a half
\* rounded up.
IsRounded(c, x, lo, hi) ==
    /\ 2 * c * (hi - lo) <= 2 * 255 * (x - lo) + (hi - lo)
    /\ 2 * c * (hi - lo) > 2 * 255 * (x - lo) - (hi - lo)

\* C26: for planes u and v with uMax > uMin and vMax > vMin, the pixel at
\* (i mod width, i div width) of the image has R = round(255 (u[i] - uMin)
\* / (uMax - uMin)), G the same of v[i], B = 0 and A = 255; a value equal to
\* the minimum encodes to 0, one equal to the maximum to 255, and every
\* channel lies in 0..255.
C26_PixelsAreNormalizedValues ==
    LET g == Grid
        u == g.all_u_values
        v == g.all_v_values
        width == Len(g.all_lon_values)
    IN  (g.png # << >> /\ Greatest(u) > Least(u) /\ Greatest(v) > Least(v))
        => \A i \in 0..(Len(u) - 1) :
              LET px == g.png[(i \div width) * width + (i % width) + 1] IN
              /\ IsRounded(px[1], u[i + 1], Least(u), Greatest(u))
              /\ IsRounded(px[2], v[i + 1], Least(v), Greatest(v))
              /\ px[3] = 0
              /\ px[4] = 255
              /\ u[i + 1] = Least(u) => px[1] = 0
              /\ u[i + 1] = Greatest(u) => px[1] = 255
              /\ v[i + 1] = Least(v) => px[2] = 0
              /\ v[i + 1] = Greatest(v) => px[2] = 255
              /\ \A c \in 1..4 : px[c] \in 0..255

\* C26's case: an image has been encoded whose red channel has the values 0
\* and 255 and a value in between that is not a whole multiple.
C26_Witness ==
    /\ Grid.png # << >>
    /\ Greatest(Grid.all_u_values) > Least(Grid.all_u_values)
    /\ Greatest(Grid.all_v_values) > Least(Grid.all_v_values)
    /\ \E j \in 1..Len(Grid.png) :
          /\ Grid.png[j][1] \notin {0, 255}
          /\ (255 * (Grid.all_u_values[j] - Least(Grid.all_u_values)))
                % (Greatest(Grid.all_u_values) - Least(Grid.all_u_values)) # 0
    /\ \E j \in 1..Len(Grid.png) : Grid.png[j][1] = 0
    /\ \E j \in 1..Len(Grid.png) : Grid.png[j][1] = 255

\* C31: a parser that has finished returns a grid exactly when the latitude
\* axis, the longitude axis and every plane it was asked for (u and v for
\* wind, the rate for precipitation) hold at least one value; when one of
\* them is empty after the scan it fails and returns no grid.
C31_GridOnlyIfNothingEmpty ==
    Parser.pc = "done" =>
        LET planes == IF Parser.kind = "wind"
                      THEN {Parser.u_values, Parser.v_values}
                      ELSE {Parser.prate_values}
            empty == {x \in planes \cup {Parser.lat_values,
                                         Parser.lon_values} : Len(x) = 0}
        IN  /\ Parser.result \in {"ok", "err"}
            /\ Parser.result = "ok" <=> empty = {}

\* A wind response with both axes and the u plane filled and no value in the
\* v plane was refused.
C31_Witness ==
    /\ Parser.pc = "done"
    /\ Parser.kind = "wind"
    /\ Parser.lat_values # << >>
    /\ Parser.lon_values # << >>
    /\ Parser.u_values # << >>
    /\ Parser.v_values = << >>
    /\ Parser.result = "err"

\* C32: an index-prefixed row of a 3-D plane (two bracket groups before the
\* numbers) gives nothing of its index tuple to the data: the plane that is
\* the current variable grows by exactly the numbers written after the
\* tuple, in their order, every other axis and plane stays as it is, and a
\* row read while no plane is the current variable appends nothing.
C32_IndexedRowAppendsItsNumbers ==
    [][LET p == Parser
           q == Parser'
           grown(v, old) == IF p.current_variable = Some(v)
                            THEN old \o q.row.vals ELSE old
       IN  (q.n = p.n + 1 /\ q.row.n = q.n /\ q.row.groups = 2) =>
               /\ q.u_values = grown("ugrd", p.u_values)
               /\ q.v_values = grown("vgrd", p.v_values)
               /\ q.prate_values = grown("prate", p.prate_values)
               /\ q.lat_values = p.lat_values
               /\ q.lon_values = p.lon_values]_vars

\* The second row of the u plane, "[1][2]" followed by 2 and -1, was read
\* after a first row that held 12.
C32_Witness ==
    /\ Parser.pc = "lines"
    /\ Parser.row = [n |-> 3, groups |-> 2, vals |-> <<2, 0 - 1>>]
    /\ Parser.u_values = <<12, 2, 0 - 1>>
    /\ Parser.v_values = << >>

\* C33: the snapshot read at the plain key wind:points is the most recent
\* one: whenever it can be read and wind:points:indices has entries, its
\* data timestamp is the greatest of the data timestamps of the entries.
C33_LatestIsMostRecent ==
    LET latest == GetWindData(kv, WIND_POINTS_KEY)
        ents == Indices(kv, WIND_POINTS_KEY)
    IN  (latest # None /\ ents # << >>) =>
            /\ latest[1].meta.dt # None
            /\ \A k \in 1..Len(ents) :
                  DataTimeOrZero(ents[k]) <= latest[1].meta.dt[1]

\* C34: the latest-value keys are consistent with each other: whenever
\* wind:png, wind:metadata and wind:points are all present they were written
\* by the same fetch-and-store cycle, so the bounds in wind:metadata are the
\* ones the image at wind:png was normalized with.
C34_LatestKeysFromOneCycle ==
    LET points == GetWindData(kv, WIND_POINTS_KEY)
        metadata == GetWindData(kv, WIND_METADATA_KEY)
    IN  (points # None /\ metadata # None /\ Has(kv, WIND_PNG_KEY)) =>
            /\ kv[WIND_PNG_KEY].v.meta = metadata[1].meta
            /\ points[1].meta = metadata[1].meta

\* C35: listed implies readable: in every state, the keys that have expired
\* or were evicted being gone, each entry of the index list of the base key
\* has a value that a read by its index returns.
C35_ListedIsReadable ==
    \A k \in 1..Len(GetAvailableIndices(kv, BaseKey)) :
        GetWindDataByIndex(kv, BaseKey,
                           GetAvailableIndices(kv, BaseKey)[k].index) # None

\* The run of a candidate of the run selector, as the scheduler names runs:
\* the number of its 6-hour cycle.
RunNameOf(run) == run.full_date \div RunTicks

\* C36: the runName in a stored wind snapshot and in its index entry is the
\* name of the run the data was downloaded from, that is of the candidate at
\* which the fallback loop succeeded, also when that was not the first
\* candidate tried.
C36_RunNameIsTheRunDownloaded ==
    \A a \in Activities :
        LET p == proc[a]
            ents == Indices(kv, WIND_POINTS_KEY)
        IN  (p.pc = "send_precip" /\ p.dl.kind = "wind" /\ p.dl.pc = "ok") =>
                /\ GetWindDataByIndex(kv, WIND_POINTS_KEY, p.index)[1].meta.rn
                      = Some(RunNameOf(p.dl.result[1]))
                /\ \A k \in 1..Len(ents) :
                      ents[k].index = p.index
                         => ents[k].rn = Some(RunNameOf(p.dl.result[1]))

\* The indices of the entries of the wind index list that a step removes.
EvictedNow ==
    {Indices(kv, WIND_POINTS_KEY)[k].index :
        k \in 1..Len(Indices(kv, WIND_POINTS_KEY))}
    \ {Indices(kv', WIND_POINTS_KEY)[k].index :
          k \in 1..Len(Indices(kv', WIND_POINTS_KEY))}

\* C37: the eviction inside setIndexed on the base key deletes only keys of
\* the evicted entries under that base key (base:i, or base:i:chunks,
\* base:i:chunk:n and base:i:meta); the other keys stay as they are, the
\* image wind:png:i and the metadata wind:metadata:i of the evicted index
\* among them.
C37_EvictionDeletesOnlyTheEntry ==
    [][/\ \A k \in DOMAIN kv \ DOMAIN kv' :
             /\ k.b = WIND_POINTS_KEY.b
             /\ k.i # None
             /\ k.i[1] \in EvictedNow
             /\ k.p \in {"", "chunks", "chunk", "meta"}
       /\ \A i \in EvictedNow :
             \A k \in {IndexedKey(WIND_PNG_KEY, i),
                       IndexedKey(WIND_METADATA_KEY, i)} :
                 Has(kv, k) => (Has(kv', k) /\ kv'[k] = kv[k])
       /\ \A k \in DOMAIN kv :
             (k.b # WIND_POINTS_KEY.b /\ k.i # None /\ k.i # last'.idx)
                => (Has(kv', k) /\ kv'[k] = kv[k])]_vars

\* A write has appended a third entry and evicted the first one, which was
\* chunked: its chunk keys are gone, its image and metadata are still there.
C37_Witness ==
    /\ last.op = "setIndexed"
    /\ Len(last.pre) = MaxHistory
    /\ last.idx = Some(MaxHistory)
    /\ last.pre[1].n = 2
    /\ ~Has(kv, ChunksKey(IndexedKey(WIND_POINTS_KEY, last.pre[1].index)))
    /\ GetWindDataByIndex(kv, WIND_POINTS_KEY, last.pre[1].index) = None
    /\ Has(kv, IndexedKey(WIND_PNG_KEY, last.pre[1].index))
    /\ Has(kv, IndexedKey(WIND_METADATA_KEY, last.pre[1].index))
    /\ \A k \in 1..Len(Indices(kv, WIND_POINTS_KEY)) :
          Indices(kv, WIND_POINTS_KEY)[k].index # last.pre[1].index

\* The wind index list holds the 8 entries that a full-history fetch at the
\* time t writes when all its downloads succeed.
HoldsFullHistoryOf(t) ==
    LET ents == Indices(kv, WIND_POINTS_KEY) IN
    /\ Len(ents) = Len(DesiredHoursBack)
    /\ {ents[k].dt : k \in 1..Len(ents)}
          = {Some(t - DesiredHoursBack[k] * Hour) :
                k \in 1..Len(DesiredHoursBack)}

\* C38: a full-history fetch that runs while the 8 entries of an earlier,
\* fully successful one (here the one at startup, at the time 0) are still
\* present and less than 2 hours have passed sends no upstream request,
\* leaves wind:points:indices and precipitation:points:indices as they are,
\* and reports success.
C38_SecondFullFetchIsIdle ==
    [][LET m == proc["manual"]
           n == proc'["manual"]
       IN  (n.mode = "history" \/ m.mode = "history")
              /\ HoldsFullHistoryOf(0) /\ now < TOLERANCE
           => /\ Indices(kv', WIND_POINTS_KEY) = Indices(kv, WIND_POINTS_KEY)
              /\ Indices(kv', PRECIPITATION_POINTS_KEY)
                    = Indices(kv, PRECIPITATION_POINTS_KEY)
              /\ n.windFor = << >>
              /\ n.precipFor = << >>
              /\ n.failed = 0
              /\ n.pc \notin {"send_wind", "wind_wait", "send_precip",
                              "precip_wait"}
              /\ (m.pc = "summary" /\ n.pc = "idle")
                    => /\ m.ok = Len(DesiredHoursBack)
                       /\ n.ret = "ok_true"
                       /\ status'.lastFetch # None
                       /\ status'.lastFetch[1].success]_vars

\* Half an hour after the startup fetch a second full-history fetch has gone
\* through its 8 targets without a request and is about to report.
C38_Witness ==
    /\ proc["manual"].mode = "history"
    /\ proc["manual"].pc = "summary"
    /\ proc["manual"].ok = 8
    /\ proc["manual"].windFor = << >>
    /\ now = 1
    /\ HoldsFullHistoryOf(0)
    /\ Len(Indices(kv, PRECIPITATION_POINTS_KEY)) = 8

\* C39: a getValue that runs while a setValue replaces one chunked value by
\* another on the same key returns the old value or the new one, whole:
\* never a list with chunks of both or with chunks missing, never the new
\* points under the old metadata.
C39_ReadIsOldOrNew ==
    LET w == proc["background"].io
        r == proc["manual"].io
    IN  (r.op = "get" /\ r.pc = "done") =>
            IF w.op = "set" THEN r.out \in {w.old, w.data}
            ELSE r.out = GetWindData(kv, ValueKey)

\* C40: a setIndexed call that fails with a cache error at one of its
\* key-value steps leaves base:indices and base:current_index consistent
\* with each other: both as the call read them, or both with the new entry
\* in; so the current index is not the index of a listed entry, and a
\* following setIndexed does not append at an index the list already has.
C40_FailureKeepsListAndCounterTogether ==
    ((\E c \in Callers : ix[c].pc = "failed")
        /\ \A c \in Callers : ix[c].pc \in {"idle", "done", "failed"}) =>
            \A k \in 1..Len(Indices(kv, BaseKey)) :
                Indices(kv, BaseKey)[k].index # CurrentIndex(kv, BaseKey)

====
